---------------------------- MODULE Spec2Model ----------------------------
(***************************************************************************)
(* senfd: enrichment of a plain figure document.                           *)
(*                                                                         *)
(* FromFigureDocument.convert folds the figures of a FigureDocument into   *)
(* an EnrichedFigureDocument: a figure without a table goes to             *)
(* `nontabular`, a figure whose description matches a variant of the       *)
(* catalog is enriched (FromFigureDocument.enrich) and put into the        *)
(* variant's bucket, every other figure goes to `uncategorized`.  The      *)
(* diagnostics of all figures are collected in one list.                   *)
(*                                                                         *)
(* Texts are sequences of segments; a segment is either a run of ASCII     *)
(* characters or the name ("U+2013") of one character that is a key of     *)
(* TRANSLATION_TABLE.  Regular expressions are modelled by the table of    *)
(* their results (re.match with the patterns of the source) on the texts   *)
(* of the input pools; a text that is not in a table does not match.       *)
(***************************************************************************)
EXTENDS Integers, Sequences, FiniteSets, TLC

\* Python's None in a place where the code holds a str otherwise.
None == "None"

(***************************************************************************)
(* Bounds of the model.                                                    *)
(***************************************************************************)
\* Largest number of figures of an input document.
MaxFigures == 2
\* Largest number of rows (caption row included) of a table given to enrich.
MaxRows == 5
\* Largest number of characters of a text given to the translation.
MaxText == 2
\* Largest number of characters of a name given to the case conversions.
MaxName == 3

(***************************************************************************)
(* Generic helpers: Python lists as sequences, dicts as sequences of       *)
(* [k, v] entries in insertion order.                                      *)
(***************************************************************************)
Range(s) == { s[i] : i \in DOMAIN s }

Min(a, b) == IF a < b THEN a ELSE b

IsPrefix(s, t) == Len(s) <= Len(t) /\ SubSeq(t, 1, Len(s)) = s

\* list(d.keys())
Keys(d) == [i \in DOMAIN d |-> d[i].k]

\* list(d.values())
Values(d) == [i \in DOMAIN d |-> d[i].v]

\* d[k] = v for one entry: an existing key keeps its position.
DictSet(d, e) ==
    IF \E i \in DOMAIN d : d[i].k = e.k
    THEN [i \in DOMAIN d |-> IF d[i].k = e.k THEN e ELSE d[i]]
    ELSE Append(d, e)

RECURSIVE DictUpdate(_, _)
\* d.update(g)
DictUpdate(d, g) ==
    IF g = <<>> THEN d ELSE DictUpdate(DictSet(d, Head(g)), Tail(g))

(***************************************************************************)
(* Text normalisation.                                                     *)
(***************************************************************************)
\* Mutant: the em dash is translated to the en dash.
TRANSLATION_TABLE_chained ==
    [c \in { "U+2013", "U+2014", "U+2018", "U+2019", "U+201C", "U+201D",
             "U+2026", "U+00E9", "U+00E1", "U+00ED", "U+00F3", "U+00FA",
             "U+00FC", "U+00F1", "U+00E7" } |->
        CASE c = "U+2013" -> "-"
          [] c = "U+2014" -> "U+2013"
          [] c = "U+2018" -> "'"
          [] c = "U+2019" -> "'"
          [] c = "U+201C" -> "\""
          [] c = "U+201D" -> "\""
          [] c = "U+2026" -> "..."
          [] c = "U+00E9" -> "e"
          [] c = "U+00E1" -> "a"
          [] c = "U+00ED" -> "i"
          [] c = "U+00F3" -> "o"
          [] c = "U+00FA" -> "u"
          [] c = "U+00FC" -> "u"
          [] c = "U+00F1" -> "n"
          [] c = "U+00E7" -> "c"]

TRANSLATION_TABLE ==
    [c \in { "U+2013", "U+2014", "U+2018", "U+2019", "U+201C", "U+201D",
             "U+2026", "U+00E9", "U+00E1", "U+00ED", "U+00F3", "U+00FA",
             "U+00FC", "U+00F1", "U+00E7" } |->
        CASE c = "U+2013" -> "-"
          [] c = "U+2014" -> "-"
          [] c = "U+2018" -> "'"
          [] c = "U+2019" -> "'"
          [] c = "U+201C" -> "\""
          [] c = "U+201D" -> "\""
          [] c = "U+2026" -> "..."
          [] c = "U+00E9" -> "e"
          [] c = "U+00E1" -> "a"
          [] c = "U+00ED" -> "i"
          [] c = "U+00F3" -> "o"
          [] c = "U+00FA" -> "u"
          [] c = "U+00FC" -> "u"
          [] c = "U+00F1" -> "n"
          [] c = "U+00E7" -> "c"]

RECURSIVE str(_)
\* The string a text stands for, unchanged.
str(text) ==
    IF text = <<>> THEN "" ELSE Head(text) \o str(Tail(text))

RECURSIVE translate(_)
\* text.translate(TRANSLATION_TABLE)
translate(text) ==
    IF text = <<>> THEN ""
    ELSE (IF Head(text) \in DOMAIN TRANSLATION_TABLE
          THEN TRANSLATION_TABLE[Head(text)]
          ELSE Head(text)) \o translate(Tail(text))

\* The characters of a value of the table: the replacement of the ellipsis
\* is the only one of more than one character.
chars(v) == IF v = "..." THEN << ".", ".", "." >> ELSE << v >>

RECURSIVE translate_chars(_)
\* text.translate(TRANSLATION_TABLE) on a text given character by
\* character: the result character by character.
translate_chars(text) ==
    IF text = <<>> THEN <<>>
    ELSE (IF Head(text) \in DOMAIN TRANSLATION_TABLE
          THEN chars(TRANSLATION_TABLE[Head(text)])
          ELSE << Head(text) >>) \o translate_chars(Tail(text))

\* cell.text.strip().replace("\n", " "): the texts of the pools carry no
\* leading or trailing white space.
header_text(text) ==
    str([i \in DOMAIN text |-> IF text[i] = "\n" THEN " " ELSE text[i]])

\* cell.text.strip().translate(TRANSLATION_TABLE)
value_text(text) == translate(text)

(***************************************************************************)
(* The variant catalog (EnrichedFigure subclasses) and the results of its  *)
(* patterns on the texts of the pools.                                     *)
(***************************************************************************)
getmembers ==
    << "AcronymsFigure",
       "CnsValueFigure",
       "CommandAdminOpcodeFigure",
       "CommandCqeDwordFigure",
       "CommandIoOpcodeFigure",
       "CommandSpecificStatusValueFigure",
       "CommandSqeDataPointerFigure",
       "CommandSqeDwordFigure",
       "CommandSqeDwordLowerUpperFigure",
       "CommandSqeMetadataPointer",
       "CommandSupportRequirementFigure",
       "Converter",
       "DataStructureFigure",
       "Document",
       "EnrichedFigure",
       "EnrichedFigureDocument",
       "Error",
       "ExampleFigure",
       "FeatureIdentifierFigure",
       "FeatureSupportFigure",
       "Figure",
       "FigureDocument",
       "FromFigureDocument",
       "GeneralCommandStatusValueFigure",
       "GenericCommandStatusValueFigure",
       "HostSoftwareSpecifiedFieldFigure",
       "IdentifyCommandSqeDwordFigure",
       "IdentifyDataStructureFigure",
       "IoControllerCommandSetSupportRequirementFigure",
       "LogPageIdentifierFigure",
       "OffsetFigure",
       "Path",
       "PropertyDefinitionFigure",
       "VersionDescriptorFieldValueFigure" >>

into_document_key(cls) ==
    CASE cls = "DataStructureFigure" -> "data_structure"
    [] cls = "IdentifyDataStructureFigure" -> "identify_data_structure"
    [] cls = "AcronymsFigure" -> "acronyms"
    [] cls = "IoControllerCommandSetSupportRequirementFigure" -> "io_controller_command_set_support_requirement"
    [] cls = "CommandSupportRequirementFigure" -> "command_support_requirement"
    [] cls = "CnsValueFigure" -> "cns_value"
    [] cls = "CommandSqeDataPointerFigure" -> "command_sqe_data_pointer"
    [] cls = "ExampleFigure" -> "example"
    [] cls = "CommandSqeMetadataPointer" -> "command_sqe_metadata_pointer"
    [] cls = "CommandSqeDwordLowerUpperFigure" -> "command_sqe_dword_lower_upper"
    [] cls = "CommandSqeDwordFigure" -> "command_sqe_dword"
    [] cls = "IdentifyCommandSqeDwordFigure" -> "identify_command_sqe_dword"
    [] cls = "CommandCqeDwordFigure" -> "command_cqe_dword"
    [] cls = "CommandAdminOpcodeFigure" -> "command_admin_opcode"
    [] cls = "CommandIoOpcodeFigure" -> "command_io_opcode"
    [] cls = "GeneralCommandStatusValueFigure" -> "general_command_status_value"
    [] cls = "GenericCommandStatusValueFigure" -> "generic_command_status_value"
    [] cls = "CommandSpecificStatusValueFigure" -> "command_specific_status_value"
    [] cls = "FeatureIdentifierFigure" -> "feature_identifier"
    [] cls = "VersionDescriptorFieldValueFigure" -> "version_descriptor_field_value"
    [] cls = "HostSoftwareSpecifiedFieldFigure" -> "host_software_specified_field"
    [] cls = "FeatureSupportFigure" -> "feature_support"
    [] cls = "LogPageIdentifierFigure" -> "log_page_identifier"
    [] cls = "OffsetFigure" -> "offset"
    [] cls = "PropertyDefinitionFigure" -> "property_definition"

Declared ==
    << "DataStructureFigure",
       "IdentifyDataStructureFigure",
       "AcronymsFigure",
       "IoControllerCommandSetSupportRequirementFigure",
       "CommandSupportRequirementFigure",
       "CnsValueFigure",
       "CommandSqeDataPointerFigure",
       "ExampleFigure",
       "CommandSqeMetadataPointer",
       "CommandSqeDwordLowerUpperFigure",
       "CommandSqeDwordFigure",
       "IdentifyCommandSqeDwordFigure",
       "CommandCqeDwordFigure",
       "CommandAdminOpcodeFigure",
       "CommandIoOpcodeFigure",
       "GeneralCommandStatusValueFigure",
       "GenericCommandStatusValueFigure",
       "CommandSpecificStatusValueFigure",
       "FeatureIdentifierFigure",
       "VersionDescriptorFieldValueFigure",
       "HostSoftwareSpecifiedFieldFigure",
       "FeatureSupportFigure",
       "LogPageIdentifierFigure",
       "OffsetFigure",
       "PropertyDefinitionFigure" >>

\* Mutant: every variant has the field description column and the
\* explanation column, whose value patterns both capture `description`.
REGEX_GRID_overlapping(cls) ==
    << "REGEX_GRID_FIELD_DESCRIPTION", "REGEX_GRID_EXPLANATION" >>

\* cls.REGEX_GRID: the columns, each named after its pair of patterns.
REGEX_GRID(cls) ==
    CASE cls = "DataStructureFigure" ->
         << "REGEX_GRID_RANGE", "REGEX_GRID_FIELD_DESCRIPTION" >>
    [] cls = "IdentifyDataStructureFigure" ->
         << "REGEX_GRID_RANGE", "REGEX_GRID_REQUIREMENTS", "REGEX_GRID_FIELD_DESCRIPTION" >>
    [] cls = "AcronymsFigure" ->
         << "REGEX_GRID_ACRONYM", "REGEX_GRID_EXPLANATION" >>
    [] cls = "IoControllerCommandSetSupportRequirementFigure" ->
         << "REGEX_GRID_COMMAND_NAME", "REGEX_GRID_REQUIREMENTS" >>
    [] cls = "CommandSupportRequirementFigure" ->
         << "REGEX_GRID_COMMAND_NAME", "REGEX_GRID_REQUIREMENTS" >>
    [] cls = "CnsValueFigure" ->
         << "CnsValueFigure.REGEX_GRID[0]", "CnsValueFigure.REGEX_GRID[1]", "REGEX_GRID_EXPLANATION", "REGEX_GRID_USES_NSID", "REGEX_GRID_USES_CNTID", "REGEX_GRID_USES_CSI", "REGEX_GRID_REFERENCE" >>
    [] cls = "CommandSqeDataPointerFigure" ->
         << "REGEX_GRID_RANGE", "REGEX_GRID_FIELD_DESCRIPTION" >>
    [] cls = "ExampleFigure" ->
         << "REGEX_GRID_RANGE", "REGEX_GRID_FIELD_DESCRIPTION" >>
    [] cls = "CommandSqeMetadataPointer" ->
         << "REGEX_GRID_RANGE", "REGEX_GRID_FIELD_DESCRIPTION" >>
    [] cls = "CommandSqeDwordLowerUpperFigure" ->
         << "REGEX_GRID_RANGE", "REGEX_GRID_FIELD_DESCRIPTION" >>
    [] cls = "CommandSqeDwordFigure" ->
         << "REGEX_GRID_RANGE", "REGEX_GRID_FIELD_DESCRIPTION" >>
    [] cls = "IdentifyCommandSqeDwordFigure" ->
         << "REGEX_GRID_RANGE", "REGEX_GRID_FIELD_DESCRIPTION" >>
    [] cls = "CommandCqeDwordFigure" ->
         << "REGEX_GRID_RANGE", "REGEX_GRID_FIELD_DESCRIPTION" >>
    [] cls = "CommandAdminOpcodeFigure" ->
         << "REGEX_GRID_BITS_FUNCTION", "REGEX_GRID_BITS_TRANSFER", "REGEX_GRID_COMMAND_OPCODE", "REGEX_GRID_USES_NSID", "REGEX_GRID_COMMAND_NAME", "REGEX_GRID_REFERENCE" >>
    [] cls = "CommandIoOpcodeFigure" ->
         << "REGEX_GRID_BITS_FUNCTION", "REGEX_GRID_BITS_TRANSFER", "REGEX_GRID_COMMAND_OPCODE", "REGEX_GRID_COMMAND_NAME", "REGEX_GRID_REFERENCE" >>
    [] cls = "GeneralCommandStatusValueFigure" ->
         << "REGEX_GRID_VALUE", "REGEX_GRID_VALUE_DESCRIPTION", "REGEX_GRID_COMMANDS_AFFECTED" >>
    [] cls = "GenericCommandStatusValueFigure" ->
         << "REGEX_GRID_VALUE", "REGEX_GRID_VALUE_DESCRIPTION" >>
    [] cls = "CommandSpecificStatusValueFigure" ->
         << "REGEX_GRID_VALUE", "REGEX_GRID_VALUE_DESCRIPTION", "REGEX_GRID_COMMANDS_AFFECTED" >>
    [] cls = "FeatureIdentifierFigure" ->
         << "REGEX_GRID_FEATURE_IDENTIFIER", "REGEX_GRID_FEATURE_PAPCR", "REGEX_GRID_FEATURE_UMBFA", "REGEX_GRID_EXPLANATION", "REGEX_GRID_SCOPE" >>
    [] cls = "VersionDescriptorFieldValueFigure" ->
         << "VersionDescriptorFieldValueFigure.REGEX_GRID[0]", "VersionDescriptorFieldValueFigure.REGEX_GRID[1]", "VersionDescriptorFieldValueFigure.REGEX_GRID[2]", "VersionDescriptorFieldValueFigure.REGEX_GRID[3]" >>
    [] cls = "HostSoftwareSpecifiedFieldFigure" ->
         << "REGEX_GRID_RANGE", "REGEX_GRID_FIELD_DESCRIPTION" >>
    [] cls = "FeatureSupportFigure" ->
         << "REGEX_GRID_FEATURE_NAME", "REGEX_GRID_REQUIREMENTS" >>
    [] cls = "LogPageIdentifierFigure" ->
         << "REGEX_GRID_LPI", "REGEX_GRID_SCOPE", "REGEX_GRID_LPN", "REGEX_GRID_REFERENCE" >>
    [] cls = "OffsetFigure" ->
         << "REGEX_GRID_RANGE", "OffsetFigure.REGEX_GRID[1]", "OffsetFigure.REGEX_GRID[2]", "REGEX_GRID_EXPLANATION" >>
    [] cls = "PropertyDefinitionFigure" ->
         << "PropertyDefinitionFigure.REGEX_GRID[0]", "PropertyDefinitionFigure.REGEX_GRID[1]", "PropertyDefinitionFigure.REGEX_GRID[2]", "PropertyDefinitionFigure.REGEX_GRID[3]", "PropertyDefinitionFigure.REGEX_GRID[4]", "PropertyDefinitionFigure.REGEX_GRID[5]" >>

ClsFields(cls) ==
    CASE cls = "DataStructureFigure" -> {}
    [] cls = "IdentifyDataStructureFigure" -> {}
    [] cls = "AcronymsFigure" -> {}
    [] cls = "IoControllerCommandSetSupportRequirementFigure" -> {"command_set_name"}
    [] cls = "CommandSupportRequirementFigure" -> {"command_span"}
    [] cls = "CnsValueFigure" -> {}
    [] cls = "CommandSqeDataPointerFigure" -> {"command_name"}
    [] cls = "ExampleFigure" -> {}
    [] cls = "CommandSqeMetadataPointer" -> {"command_name"}
    [] cls = "CommandSqeDwordLowerUpperFigure" -> {"command_name", "command_dword_lower", "command_dword_upper"}
    [] cls = "CommandSqeDwordFigure" -> {"command_name", "command_dword"}
    [] cls = "IdentifyCommandSqeDwordFigure" -> {"command_name", "command_dword"}
    [] cls = "CommandCqeDwordFigure" -> {"command_name", "command_dword"}
    [] cls = "CommandAdminOpcodeFigure" -> {"command_set_name"}
    [] cls = "CommandIoOpcodeFigure" -> {"command_set_name"}
    [] cls = "GeneralCommandStatusValueFigure" -> {}
    [] cls = "GenericCommandStatusValueFigure" -> {}
    [] cls = "CommandSpecificStatusValueFigure" -> {"command_name"}
    [] cls = "FeatureIdentifierFigure" -> {}
    [] cls = "VersionDescriptorFieldValueFigure" -> {}
    [] cls = "HostSoftwareSpecifiedFieldFigure" -> {}
    [] cls = "FeatureSupportFigure" -> {}
    [] cls = "LogPageIdentifierFigure" -> {}
    [] cls = "OffsetFigure" -> {}
    [] cls = "PropertyDefinitionFigure" -> {}

DescriptionMatches ==
    { <<"CommandAdminOpcodeFigure", "Opcodes for Admin Commands", <<[k |-> "command_set_name", v |-> "Admin"]>>>>,
      <<"CommandIoOpcodeFigure", "Opcodes for Admin Commands", <<[k |-> "command_set_name", v |-> "Admin"]>>>>,
      <<"CommandSqeDataPointerFigure", "Identify - Data Pointer", <<[k |-> "command_name", v |-> "Identify"]>>>>,
      <<"GenericCommandStatusValueFigure", "Flush - Generic Command Status Values", <<[k |-> "command_name", v |-> "Flush"]>>>>,
      <<"IdentifyDataStructureFigure", "Identify Controller Data Structure Example", <<>>>>,
      <<"ExampleFigure", "Identify Controller Data Structure Example", <<>>>> }

HeaderMatches ==
    { <<"REGEX_GRID_FIELD_DESCRIPTION", "Description", "Description">>,
      <<"REGEX_GRID_EXPLANATION", "Description", "Description">>,
      <<"REGEX_GRID_COMMAND_NAME", "Command", "Command">>,
      <<"REGEX_GRID_USES_NSID", "Namespace Identifier Used", "Namespace Identifier Used">>,
      <<"REGEX_GRID_REFERENCE", "Reference", "Reference">>,
      <<"REGEX_GRID_BITS_FUNCTION", "Function", "Function">>,
      <<"REGEX_GRID_BITS_TRANSFER", "Data Transfer", "Data Transfer">>,
      <<"REGEX_GRID_COMMAND_OPCODE", "Combined Opcode", "Combined Opcode">>,
      <<"REGEX_GRID_VALUE", "Value", "Value">>,
      <<"REGEX_GRID_VALUE_DESCRIPTION", "Description", "Description">>,
      <<"PropertyDefinitionFigure.REGEX_GRID[5]", "Namespace Identifier Used", "Name">> }

ValueMatches ==
    { <<"REGEX_GRID_RANGE", "Figure", <<[k |-> "upper", v |-> None], [k |-> "lower", v |-> "Figure"]>>>>,
      <<"REGEX_GRID_RANGE", "Value", <<[k |-> "upper", v |-> None], [k |-> "lower", v |-> "Value"]>>>>,
      <<"REGEX_GRID_RANGE", "Description", <<[k |-> "upper", v |-> None], [k |-> "lower", v |-> "Description"]>>>>,
      <<"REGEX_GRID_RANGE", "eh", <<[k |-> "upper", v |-> None], [k |-> "lower", v |-> "eh"]>>>>,
      <<"REGEX_GRID_RANGE", "U+00E9h", <<[k |-> "upper", v |-> None], [k |-> "lower", v |-> "U+00E9h"]>>>>,
      <<"REGEX_GRID_RANGE", "Function", <<[k |-> "upper", v |-> None], [k |-> "lower", v |-> "Function"]>>>>,
      <<"REGEX_GRID_RANGE", "Data Transfer", <<[k |-> "upper", v |-> None], [k |-> "lower", v |-> "Data Transfer"]>>>>,
      <<"REGEX_GRID_RANGE", "Combined Opcode", <<[k |-> "upper", v |-> None], [k |-> "lower", v |-> "Combined Opcode"]>>>>,
      <<"REGEX_GRID_RANGE", "Namespace Identifier Used", <<[k |-> "upper", v |-> None], [k |-> "lower", v |-> "Namespace Identifier Used"]>>>>,
      <<"REGEX_GRID_RANGE", "Command", <<[k |-> "upper", v |-> None], [k |-> "lower", v |-> "Command"]>>>>,
      <<"REGEX_GRID_RANGE", "Reference", <<[k |-> "upper", v |-> None], [k |-> "lower", v |-> "Reference"]>>>>,
      <<"REGEX_GRID_RANGE", "0000 00b", <<[k |-> "upper", v |-> None], [k |-> "lower", v |-> "0000 00b"]>>>>,
      <<"REGEX_GRID_RANGE", "00b", <<[k |-> "upper", v |-> None], [k |-> "lower", v |-> "00b"]>>>>,
      <<"REGEX_GRID_RANGE", "02h", <<[k |-> "upper", v |-> None], [k |-> "lower", v |-> "02h"]>>>>,
      <<"REGEX_GRID_RANGE", "Yes", <<[k |-> "upper", v |-> None], [k |-> "lower", v |-> "Yes"]>>>>,
      <<"REGEX_GRID_RANGE", "Get Log Page", <<[k |-> "upper", v |-> None], [k |-> "lower", v |-> "Get Log Page"]>>>>,
      <<"REGEX_GRID_FIELD_DESCRIPTION", "Figure", <<[k |-> "name", v |-> "Figure"], [k |-> "acronym", v |-> None], [k |-> "description", v |-> None]>>>>,
      <<"REGEX_GRID_FIELD_DESCRIPTION", "Value", <<[k |-> "name", v |-> "Value"], [k |-> "acronym", v |-> None], [k |-> "description", v |-> None]>>>>,
      <<"REGEX_GRID_FIELD_DESCRIPTION", "Description", <<[k |-> "name", v |-> "Description"], [k |-> "acronym", v |-> None], [k |-> "description", v |-> None]>>>>,
      <<"REGEX_GRID_FIELD_DESCRIPTION", "eh", <<[k |-> "name", v |-> "eh"], [k |-> "acronym", v |-> None], [k |-> "description", v |-> None]>>>>,
      <<"REGEX_GRID_FIELD_DESCRIPTION", "U+00E9h", <<[k |-> "name", v |-> "U+00E9h"], [k |-> "acronym", v |-> None], [k |-> "description", v |-> None]>>>>,
      <<"REGEX_GRID_FIELD_DESCRIPTION", "Function", <<[k |-> "name", v |-> "Function"], [k |-> "acronym", v |-> None], [k |-> "description", v |-> None]>>>>,
      <<"REGEX_GRID_FIELD_DESCRIPTION", "Data Transfer", <<[k |-> "name", v |-> "Data Transfer"], [k |-> "acronym", v |-> None], [k |-> "description", v |-> None]>>>>,
      <<"REGEX_GRID_FIELD_DESCRIPTION", "Combined Opcode", <<[k |-> "name", v |-> "Combined Opcode"], [k |-> "acronym", v |-> None], [k |-> "description", v |-> None]>>>>,
      <<"REGEX_GRID_FIELD_DESCRIPTION", "Namespace Identifier Used", <<[k |-> "name", v |-> "Namespace Identifier Used"], [k |-> "acronym", v |-> None], [k |-> "description", v |-> None]>>>>,
      <<"REGEX_GRID_FIELD_DESCRIPTION", "Command", <<[k |-> "name", v |-> "Command"], [k |-> "acronym", v |-> None], [k |-> "description", v |-> None]>>>>,
      <<"REGEX_GRID_FIELD_DESCRIPTION", "Reference", <<[k |-> "name", v |-> "Reference"], [k |-> "acronym", v |-> None], [k |-> "description", v |-> None]>>>>,
      <<"REGEX_GRID_FIELD_DESCRIPTION", "0000 00b", <<[k |-> "name", v |-> "0000 00b"], [k |-> "acronym", v |-> None], [k |-> "description", v |-> None]>>>>,
      <<"REGEX_GRID_FIELD_DESCRIPTION", "00b", <<[k |-> "name", v |-> "00b"], [k |-> "acronym", v |-> None], [k |-> "description", v |-> None]>>>>,
      <<"REGEX_GRID_FIELD_DESCRIPTION", "02h", <<[k |-> "name", v |-> "02h"], [k |-> "acronym", v |-> None], [k |-> "description", v |-> None]>>>>,
      <<"REGEX_GRID_FIELD_DESCRIPTION", "Yes", <<[k |-> "name", v |-> "Yes"], [k |-> "acronym", v |-> None], [k |-> "description", v |-> None]>>>>,
      <<"REGEX_GRID_FIELD_DESCRIPTION", "Get Log Page", <<[k |-> "name", v |-> "Get Log Page"], [k |-> "acronym", v |-> None], [k |-> "description", v |-> None]>>>>,
      <<"REGEX_GRID_REQUIREMENTS", "", <<[k |-> "requirement", v |-> None]>>>>,
      <<"REGEX_GRID_ACRONYM", "Figure", <<[k |-> "term", v |-> "Figure"]>>>>,
      <<"REGEX_GRID_ACRONYM", "Value", <<[k |-> "term", v |-> "Value"]>>>>,
      <<"REGEX_GRID_ACRONYM", "Description", <<[k |-> "term", v |-> "Description"]>>>>,
      <<"REGEX_GRID_ACRONYM", "eh", <<[k |-> "term", v |-> "eh"]>>>>,
      <<"REGEX_GRID_ACRONYM", "U+00E9h", <<[k |-> "term", v |-> "U+00E9h"]>>>>,
      <<"REGEX_GRID_ACRONYM", "", <<[k |-> "term", v |-> ""]>>>>,
      <<"REGEX_GRID_ACRONYM", "Function", <<[k |-> "term", v |-> "Function"]>>>>,
      <<"REGEX_GRID_ACRONYM", "Data Transfer", <<[k |-> "term", v |-> "Data Transfer"]>>>>,
      <<"REGEX_GRID_ACRONYM", "Combined Opcode", <<[k |-> "term", v |-> "Combined Opcode"]>>>>,
      <<"REGEX_GRID_ACRONYM", "Namespace Identifier Used", <<[k |-> "term", v |-> "Namespace Identifier Used"]>>>>,
      <<"REGEX_GRID_ACRONYM", "Command", <<[k |-> "term", v |-> "Command"]>>>>,
      <<"REGEX_GRID_ACRONYM", "Reference", <<[k |-> "term", v |-> "Reference"]>>>>,
      <<"REGEX_GRID_ACRONYM", "0000 00b", <<[k |-> "term", v |-> "0000 00b"]>>>>,
      <<"REGEX_GRID_ACRONYM", "00b", <<[k |-> "term", v |-> "00b"]>>>>,
      <<"REGEX_GRID_ACRONYM", "02h", <<[k |-> "term", v |-> "02h"]>>>>,
      <<"REGEX_GRID_ACRONYM", "Yes", <<[k |-> "term", v |-> "Yes"]>>>>,
      <<"REGEX_GRID_ACRONYM", "Get Log Page", <<[k |-> "term", v |-> "Get Log Page"]>>>>,
      <<"REGEX_GRID_ACRONYM", "U+00A75.1", <<[k |-> "term", v |-> "U+00A75.1"]>>>>,
      <<"REGEX_GRID_EXPLANATION", "Figure", <<[k |-> "description", v |-> "Figure"]>>>>,
      <<"REGEX_GRID_EXPLANATION", "Value", <<[k |-> "description", v |-> "Value"]>>>>,
      <<"REGEX_GRID_EXPLANATION", "Description", <<[k |-> "description", v |-> "Description"]>>>>,
      <<"REGEX_GRID_EXPLANATION", "eh", <<[k |-> "description", v |-> "eh"]>>>>,
      <<"REGEX_GRID_EXPLANATION", "U+00E9h", <<[k |-> "description", v |-> "U+00E9h"]>>>>,
      <<"REGEX_GRID_EXPLANATION", "", <<[k |-> "description", v |-> ""]>>>>,
      <<"REGEX_GRID_EXPLANATION", "Function", <<[k |-> "description", v |-> "Function"]>>>>,
      <<"REGEX_GRID_EXPLANATION", "Data Transfer", <<[k |-> "description", v |-> "Data Transfer"]>>>>,
      <<"REGEX_GRID_EXPLANATION", "Combined Opcode", <<[k |-> "description", v |-> "Combined Opcode"]>>>>,
      <<"REGEX_GRID_EXPLANATION", "Namespace Identifier Used", <<[k |-> "description", v |-> "Namespace Identifier Used"]>>>>,
      <<"REGEX_GRID_EXPLANATION", "Command", <<[k |-> "description", v |-> "Command"]>>>>,
      <<"REGEX_GRID_EXPLANATION", "Reference", <<[k |-> "description", v |-> "Reference"]>>>>,
      <<"REGEX_GRID_EXPLANATION", "0000 00b", <<[k |-> "description", v |-> "0000 00b"]>>>>,
      <<"REGEX_GRID_EXPLANATION", "00b", <<[k |-> "description", v |-> "00b"]>>>>,
      <<"REGEX_GRID_EXPLANATION", "02h", <<[k |-> "description", v |-> "02h"]>>>>,
      <<"REGEX_GRID_EXPLANATION", "Yes", <<[k |-> "description", v |-> "Yes"]>>>>,
      <<"REGEX_GRID_EXPLANATION", "Get Log Page", <<[k |-> "description", v |-> "Get Log Page"]>>>>,
      <<"REGEX_GRID_EXPLANATION", "U+00A75.1", <<[k |-> "description", v |-> "U+00A75.1"]>>>>,
      <<"REGEX_GRID_COMMAND_NAME", "Figure", <<[k |-> "command_name", v |-> "Figure"]>>>>,
      <<"REGEX_GRID_COMMAND_NAME", "Value", <<[k |-> "command_name", v |-> "Value"]>>>>,
      <<"REGEX_GRID_COMMAND_NAME", "Description", <<[k |-> "command_name", v |-> "Description"]>>>>,
      <<"REGEX_GRID_COMMAND_NAME", "eh", <<[k |-> "command_name", v |-> "eh"]>>>>,
      <<"REGEX_GRID_COMMAND_NAME", "", <<[k |-> "command_name", v |-> ""]>>>>,
      <<"REGEX_GRID_COMMAND_NAME", "Function", <<[k |-> "command_name", v |-> "Function"]>>>>,
      <<"REGEX_GRID_COMMAND_NAME", "Data Transfer", <<[k |-> "command_name", v |-> "Data Transfer"]>>>>,
      <<"REGEX_GRID_COMMAND_NAME", "Combined Opcode", <<[k |-> "command_name", v |-> "Combined Opcode"]>>>>,
      <<"REGEX_GRID_COMMAND_NAME", "Namespace Identifier Used", <<[k |-> "command_name", v |-> "Namespace Identifier Used"]>>>>,
      <<"REGEX_GRID_COMMAND_NAME", "Command", <<[k |-> "command_name", v |-> "Command"]>>>>,
      <<"REGEX_GRID_COMMAND_NAME", "Reference", <<[k |-> "command_name", v |-> "Reference"]>>>>,
      <<"REGEX_GRID_COMMAND_NAME", "Yes", <<[k |-> "command_name", v |-> "Yes"]>>>>,
      <<"REGEX_GRID_COMMAND_NAME", "Get Log Page", <<[k |-> "command_name", v |-> "Get Log Page"]>>>>,
      <<"CnsValueFigure.REGEX_GRID[0]", "eh", <<[k |-> "cns_value", v |-> "eh"]>>>>,
      <<"CnsValueFigure.REGEX_GRID[0]", "02h", <<[k |-> "cns_value", v |-> "02h"]>>>>,
      <<"CnsValueFigure.REGEX_GRID[1]", "", <<[k |-> "requirement", v |-> None]>>>>,
      <<"REGEX_GRID_USES_NSID", "Namespace Identifier Used", <<[k |-> "uses_nsid", v |-> "N"]>>>>,
      <<"REGEX_GRID_USES_NSID", "Yes", <<[k |-> "uses_nsid", v |-> "Yes"]>>>>,
      <<"REGEX_GRID_USES_CNTID", "Namespace Identifier Used", <<[k |-> "uses_cntid", v |-> "N"]>>>>,
      <<"REGEX_GRID_USES_CNTID", "Yes", <<[k |-> "uses_cntid", v |-> "Yes"]>>>>,
      <<"REGEX_GRID_USES_CSI", "Namespace Identifier Used", <<[k |-> "uses_csi", v |-> "N"]>>>>,
      <<"REGEX_GRID_USES_CSI", "Yes", <<[k |-> "uses_csi", v |-> "Yes"]>>>>,
      <<"REGEX_GRID_REFERENCE", "Figure", <<[k |-> "reference", v |-> "Figure"]>>>>,
      <<"REGEX_GRID_REFERENCE", "Value", <<[k |-> "reference", v |-> "Value"]>>>>,
      <<"REGEX_GRID_REFERENCE", "Description", <<[k |-> "reference", v |-> "Description"]>>>>,
      <<"REGEX_GRID_REFERENCE", "eh", <<[k |-> "reference", v |-> "eh"]>>>>,
      <<"REGEX_GRID_REFERENCE", "U+00E9h", <<[k |-> "reference", v |-> "U+00E9h"]>>>>,
      <<"REGEX_GRID_REFERENCE", "", <<[k |-> "reference", v |-> ""]>>>>,
      <<"REGEX_GRID_REFERENCE", "Function", <<[k |-> "reference", v |-> "Function"]>>>>,
      <<"REGEX_GRID_REFERENCE", "Data Transfer", <<[k |-> "reference", v |-> "Data Transfer"]>>>>,
      <<"REGEX_GRID_REFERENCE", "Combined Opcode", <<[k |-> "reference", v |-> "Combined Opcode"]>>>>,
      <<"REGEX_GRID_REFERENCE", "Namespace Identifier Used", <<[k |-> "reference", v |-> "Namespace Identifier Used"]>>>>,
      <<"REGEX_GRID_REFERENCE", "Command", <<[k |-> "reference", v |-> "Command"]>>>>,
      <<"REGEX_GRID_REFERENCE", "Reference", <<[k |-> "reference", v |-> "Reference"]>>>>,
      <<"REGEX_GRID_REFERENCE", "0000 00b", <<[k |-> "reference", v |-> "0000 00b"]>>>>,
      <<"REGEX_GRID_REFERENCE", "00b", <<[k |-> "reference", v |-> "00b"]>>>>,
      <<"REGEX_GRID_REFERENCE", "02h", <<[k |-> "reference", v |-> "02h"]>>>>,
      <<"REGEX_GRID_REFERENCE", "Yes", <<[k |-> "reference", v |-> "Yes"]>>>>,
      <<"REGEX_GRID_REFERENCE", "Get Log Page", <<[k |-> "reference", v |-> "Get Log Page"]>>>>,
      <<"REGEX_GRID_REFERENCE", "U+00A75.1", <<[k |-> "reference", v |-> "U+00A75.1"]>>>>,
      <<"REGEX_GRID_BITS_FUNCTION", "0000 00b", <<[k |-> "bitstr", v |-> "0000 00b"]>>>>,
      <<"REGEX_GRID_BITS_TRANSFER", "00b", <<[k |-> "function", v |-> "00b"]>>>>,
      <<"REGEX_GRID_COMMAND_OPCODE", "eh", <<[k |-> "opcode", v |-> "eh"]>>>>,
      <<"REGEX_GRID_COMMAND_OPCODE", "02h", <<[k |-> "opcode", v |-> "02h"]>>>>,
      <<"REGEX_GRID_VALUE", "eh", <<[k |-> "value", v |-> "eh"]>>>>,
      <<"REGEX_GRID_VALUE", "02h", <<[k |-> "value", v |-> "02h"]>>>>,
      <<"REGEX_GRID_VALUE_DESCRIPTION", "Figure", <<[k |-> "name", v |-> "Figure"], [k |-> "description", v |-> None]>>>>,
      <<"REGEX_GRID_VALUE_DESCRIPTION", "Value", <<[k |-> "name", v |-> "Value"], [k |-> "description", v |-> None]>>>>,
      <<"REGEX_GRID_VALUE_DESCRIPTION", "Description", <<[k |-> "name", v |-> "Description"], [k |-> "description", v |-> None]>>>>,
      <<"REGEX_GRID_VALUE_DESCRIPTION", "eh", <<[k |-> "name", v |-> "eh"], [k |-> "description", v |-> None]>>>>,
      <<"REGEX_GRID_VALUE_DESCRIPTION", "U+00E9h", <<[k |-> "name", v |-> "U+00E9h"], [k |-> "description", v |-> None]>>>>,
      <<"REGEX_GRID_VALUE_DESCRIPTION", "Function", <<[k |-> "name", v |-> "Function"], [k |-> "description", v |-> None]>>>>,
      <<"REGEX_GRID_VALUE_DESCRIPTION", "Data Transfer", <<[k |-> "name", v |-> "Data Transfer"], [k |-> "description", v |-> None]>>>>,
      <<"REGEX_GRID_VALUE_DESCRIPTION", "Combined Opcode", <<[k |-> "name", v |-> "Combined Opcode"], [k |-> "description", v |-> None]>>>>,
      <<"REGEX_GRID_VALUE_DESCRIPTION", "Namespace Identifier Used", <<[k |-> "name", v |-> "Namespace Identifier Used"], [k |-> "description", v |-> None]>>>>,
      <<"REGEX_GRID_VALUE_DESCRIPTION", "Command", <<[k |-> "name", v |-> "Command"], [k |-> "description", v |-> None]>>>>,
      <<"REGEX_GRID_VALUE_DESCRIPTION", "Reference", <<[k |-> "name", v |-> "Reference"], [k |-> "description", v |-> None]>>>>,
      <<"REGEX_GRID_VALUE_DESCRIPTION", "0000 00b", <<[k |-> "name", v |-> "0000 00b"], [k |-> "description", v |-> None]>>>>,
      <<"REGEX_GRID_VALUE_DESCRIPTION", "00b", <<[k |-> "name", v |-> "00b"], [k |-> "description", v |-> None]>>>>,
      <<"REGEX_GRID_VALUE_DESCRIPTION", "02h", <<[k |-> "name", v |-> "02h"], [k |-> "description", v |-> None]>>>>,
      <<"REGEX_GRID_VALUE_DESCRIPTION", "Yes", <<[k |-> "name", v |-> "Yes"], [k |-> "description", v |-> None]>>>>,
      <<"REGEX_GRID_VALUE_DESCRIPTION", "Get Log Page", <<[k |-> "name", v |-> "Get Log Page"], [k |-> "description", v |-> None]>>>>,
      <<"REGEX_GRID_COMMANDS_AFFECTED", "Figure", <<[k |-> "comma", v |-> "Figure"]>>>>,
      <<"REGEX_GRID_COMMANDS_AFFECTED", "Value", <<[k |-> "comma", v |-> "Value"]>>>>,
      <<"REGEX_GRID_COMMANDS_AFFECTED", "Description", <<[k |-> "comma", v |-> "Description"]>>>>,
      <<"REGEX_GRID_COMMANDS_AFFECTED", "eh", <<[k |-> "comma", v |-> "eh"]>>>>,
      <<"REGEX_GRID_COMMANDS_AFFECTED", "U+00E9h", <<[k |-> "comma", v |-> "U+00E9h"]>>>>,
      <<"REGEX_GRID_COMMANDS_AFFECTED", "", <<[k |-> "comma", v |-> ""]>>>>,
      <<"REGEX_GRID_COMMANDS_AFFECTED", "Function", <<[k |-> "comma", v |-> "Function"]>>>>,
      <<"REGEX_GRID_COMMANDS_AFFECTED", "Data Transfer", <<[k |-> "comma", v |-> "Data Transfer"]>>>>,
      <<"REGEX_GRID_COMMANDS_AFFECTED", "Combined Opcode", <<[k |-> "comma", v |-> "Combined Opcode"]>>>>,
      <<"REGEX_GRID_COMMANDS_AFFECTED", "Namespace Identifier Used", <<[k |-> "comma", v |-> "Namespace Identifier Used"]>>>>,
      <<"REGEX_GRID_COMMANDS_AFFECTED", "Command", <<[k |-> "comma", v |-> "Command"]>>>>,
      <<"REGEX_GRID_COMMANDS_AFFECTED", "Reference", <<[k |-> "comma", v |-> "Reference"]>>>>,
      <<"REGEX_GRID_COMMANDS_AFFECTED", "0000 00b", <<[k |-> "comma", v |-> "0000 00b"]>>>>,
      <<"REGEX_GRID_COMMANDS_AFFECTED", "00b", <<[k |-> "comma", v |-> "00b"]>>>>,
      <<"REGEX_GRID_COMMANDS_AFFECTED", "02h", <<[k |-> "comma", v |-> "02h"]>>>>,
      <<"REGEX_GRID_COMMANDS_AFFECTED", "Yes", <<[k |-> "comma", v |-> "Yes"]>>>>,
      <<"REGEX_GRID_COMMANDS_AFFECTED", "Get Log Page", <<[k |-> "comma", v |-> "Get Log Page"]>>>>,
      <<"REGEX_GRID_COMMANDS_AFFECTED", "U+00A75.1", <<[k |-> "comma", v |-> "U+00A75.1"]>>>>,
      <<"REGEX_GRID_FEATURE_IDENTIFIER", "eh", <<[k |-> "feature_identifier", v |-> "eh"]>>>>,
      <<"REGEX_GRID_FEATURE_IDENTIFIER", "02h", <<[k |-> "feature_identifier", v |-> "02h"]>>>>,
      <<"REGEX_GRID_FEATURE_PAPCR", "Namespace Identifier Used", <<[k |-> "persist", v |-> "N"]>>>>,
      <<"REGEX_GRID_FEATURE_PAPCR", "Yes", <<[k |-> "persist", v |-> "Yes"]>>>>,
      <<"REGEX_GRID_FEATURE_UMBFA", "Namespace Identifier Used", <<[k |-> "membuf", v |-> "N"]>>>>,
      <<"REGEX_GRID_FEATURE_UMBFA", "Yes", <<[k |-> "membuf", v |-> "Yes"]>>>>,
      <<"REGEX_GRID_SCOPE", "Figure", <<[k |-> "scope", v |-> "Figure"]>>>>,
      <<"REGEX_GRID_SCOPE", "Value", <<[k |-> "scope", v |-> "Value"]>>>>,
      <<"REGEX_GRID_SCOPE", "Description", <<[k |-> "scope", v |-> "Description"]>>>>,
      <<"REGEX_GRID_SCOPE", "eh", <<[k |-> "scope", v |-> "eh"]>>>>,
      <<"REGEX_GRID_SCOPE", "U+00E9h", <<[k |-> "scope", v |-> "U+00E9h"]>>>>,
      <<"REGEX_GRID_SCOPE", "", <<[k |-> "scope", v |-> ""]>>>>,
      <<"REGEX_GRID_SCOPE", "Function", <<[k |-> "scope", v |-> "Function"]>>>>,
      <<"REGEX_GRID_SCOPE", "Data Transfer", <<[k |-> "scope", v |-> "Data Transfer"]>>>>,
      <<"REGEX_GRID_SCOPE", "Combined Opcode", <<[k |-> "scope", v |-> "Combined Opcode"]>>>>,
      <<"REGEX_GRID_SCOPE", "Namespace Identifier Used", <<[k |-> "scope", v |-> "Namespace Identifier Used"]>>>>,
      <<"REGEX_GRID_SCOPE", "Command", <<[k |-> "scope", v |-> "Command"]>>>>,
      <<"REGEX_GRID_SCOPE", "Reference", <<[k |-> "scope", v |-> "Reference"]>>>>,
      <<"REGEX_GRID_SCOPE", "0000 00b", <<[k |-> "scope", v |-> "0000 00b"]>>>>,
      <<"REGEX_GRID_SCOPE", "00b", <<[k |-> "scope", v |-> "00b"]>>>>,
      <<"REGEX_GRID_SCOPE", "02h", <<[k |-> "scope", v |-> "02h"]>>>>,
      <<"REGEX_GRID_SCOPE", "Yes", <<[k |-> "scope", v |-> "Yes"]>>>>,
      <<"REGEX_GRID_SCOPE", "Get Log Page", <<[k |-> "scope", v |-> "Get Log Page"]>>>>,
      <<"REGEX_GRID_SCOPE", "U+00A75.1", <<[k |-> "scope", v |-> "U+00A75.1"]>>>>,
      <<"VersionDescriptorFieldValueFigure.REGEX_GRID[1]", "eh", <<[k |-> "version_major", v |-> "eh"]>>>>,
      <<"VersionDescriptorFieldValueFigure.REGEX_GRID[1]", "02h", <<[k |-> "version_major", v |-> "02h"]>>>>,
      <<"VersionDescriptorFieldValueFigure.REGEX_GRID[2]", "eh", <<[k |-> "version_minor", v |-> "eh"]>>>>,
      <<"VersionDescriptorFieldValueFigure.REGEX_GRID[2]", "02h", <<[k |-> "version_minor", v |-> "02h"]>>>>,
      <<"VersionDescriptorFieldValueFigure.REGEX_GRID[3]", "eh", <<[k |-> "version_tertiary", v |-> "eh"]>>>>,
      <<"VersionDescriptorFieldValueFigure.REGEX_GRID[3]", "02h", <<[k |-> "version_tertiary", v |-> "02h"]>>>>,
      <<"REGEX_GRID_FEATURE_NAME", "Figure", <<[k |-> "feature_name", v |-> "Figure"]>>>>,
      <<"REGEX_GRID_FEATURE_NAME", "Value", <<[k |-> "feature_name", v |-> "Value"]>>>>,
      <<"REGEX_GRID_FEATURE_NAME", "Description", <<[k |-> "feature_name", v |-> "Description"]>>>>,
      <<"REGEX_GRID_FEATURE_NAME", "eh", <<[k |-> "feature_name", v |-> "eh"]>>>>,
      <<"REGEX_GRID_FEATURE_NAME", "", <<[k |-> "feature_name", v |-> ""]>>>>,
      <<"REGEX_GRID_FEATURE_NAME", "Function", <<[k |-> "feature_name", v |-> "Function"]>>>>,
      <<"REGEX_GRID_FEATURE_NAME", "Data Transfer", <<[k |-> "feature_name", v |-> "Data Transfer"]>>>>,
      <<"REGEX_GRID_FEATURE_NAME", "Combined Opcode", <<[k |-> "feature_name", v |-> "Combined Opcode"]>>>>,
      <<"REGEX_GRID_FEATURE_NAME", "Namespace Identifier Used", <<[k |-> "feature_name", v |-> "Namespace Identifier Used"]>>>>,
      <<"REGEX_GRID_FEATURE_NAME", "Command", <<[k |-> "feature_name", v |-> "Command"]>>>>,
      <<"REGEX_GRID_FEATURE_NAME", "Reference", <<[k |-> "feature_name", v |-> "Reference"]>>>>,
      <<"REGEX_GRID_FEATURE_NAME", "Yes", <<[k |-> "feature_name", v |-> "Yes"]>>>>,
      <<"REGEX_GRID_FEATURE_NAME", "Get Log Page", <<[k |-> "feature_name", v |-> "Get Log Page"]>>>>,
      <<"REGEX_GRID_LPI", "eh", <<[k |-> "log_page_identifier", v |-> "eh"]>>>>,
      <<"REGEX_GRID_LPI", "02h", <<[k |-> "log_page_identifier", v |-> "02h"]>>>>,
      <<"REGEX_GRID_LPN", "Figure", <<[k |-> "log_page_name", v |-> "Figure"]>>>>,
      <<"REGEX_GRID_LPN", "Value", <<[k |-> "log_page_name", v |-> "Value"]>>>>,
      <<"REGEX_GRID_LPN", "Description", <<[k |-> "log_page_name", v |-> "Description"]>>>>,
      <<"REGEX_GRID_LPN", "eh", <<[k |-> "log_page_name", v |-> "eh"]>>>>,
      <<"REGEX_GRID_LPN", "U+00E9h", <<[k |-> "log_page_name", v |-> "U+00E9h"]>>>>,
      <<"REGEX_GRID_LPN", "", <<[k |-> "log_page_name", v |-> ""]>>>>,
      <<"REGEX_GRID_LPN", "Function", <<[k |-> "log_page_name", v |-> "Function"]>>>>,
      <<"REGEX_GRID_LPN", "Data Transfer", <<[k |-> "log_page_name", v |-> "Data Transfer"]>>>>,
      <<"REGEX_GRID_LPN", "Combined Opcode", <<[k |-> "log_page_name", v |-> "Combined Opcode"]>>>>,
      <<"REGEX_GRID_LPN", "Namespace Identifier Used", <<[k |-> "log_page_name", v |-> "Namespace Identifier Used"]>>>>,
      <<"REGEX_GRID_LPN", "Command", <<[k |-> "log_page_name", v |-> "Command"]>>>>,
      <<"REGEX_GRID_LPN", "Reference", <<[k |-> "log_page_name", v |-> "Reference"]>>>>,
      <<"REGEX_GRID_LPN", "0000 00b", <<[k |-> "log_page_name", v |-> "0000 00b"]>>>>,
      <<"REGEX_GRID_LPN", "00b", <<[k |-> "log_page_name", v |-> "00b"]>>>>,
      <<"REGEX_GRID_LPN", "02h", <<[k |-> "log_page_name", v |-> "02h"]>>>>,
      <<"REGEX_GRID_LPN", "Yes", <<[k |-> "log_page_name", v |-> "Yes"]>>>>,
      <<"REGEX_GRID_LPN", "Get Log Page", <<[k |-> "log_page_name", v |-> "Get Log Page"]>>>>,
      <<"REGEX_GRID_LPN", "U+00A75.1", <<[k |-> "log_page_name", v |-> "U+00A75.1"]>>>>,
      <<"OffsetFigure.REGEX_GRID[1]", "Figure", <<[k |-> "all", v |-> "Figure"]>>>>,
      <<"OffsetFigure.REGEX_GRID[1]", "Value", <<[k |-> "all", v |-> "Value"]>>>>,
      <<"OffsetFigure.REGEX_GRID[1]", "Description", <<[k |-> "all", v |-> "Description"]>>>>,
      <<"OffsetFigure.REGEX_GRID[1]", "eh", <<[k |-> "all", v |-> "eh"]>>>>,
      <<"OffsetFigure.REGEX_GRID[1]", "U+00E9h", <<[k |-> "all", v |-> "U+00E9h"]>>>>,
      <<"OffsetFigure.REGEX_GRID[1]", "", <<[k |-> "all", v |-> ""]>>>>,
      <<"OffsetFigure.REGEX_GRID[1]", "Function", <<[k |-> "all", v |-> "Function"]>>>>,
      <<"OffsetFigure.REGEX_GRID[1]", "Data Transfer", <<[k |-> "all", v |-> "Data Transfer"]>>>>,
      <<"OffsetFigure.REGEX_GRID[1]", "Combined Opcode", <<[k |-> "all", v |-> "Combined Opcode"]>>>>,
      <<"OffsetFigure.REGEX_GRID[1]", "Namespace Identifier Used", <<[k |-> "all", v |-> "Namespace Identifier Used"]>>>>,
      <<"OffsetFigure.REGEX_GRID[1]", "Command", <<[k |-> "all", v |-> "Command"]>>>>,
      <<"OffsetFigure.REGEX_GRID[1]", "Reference", <<[k |-> "all", v |-> "Reference"]>>>>,
      <<"OffsetFigure.REGEX_GRID[1]", "0000 00b", <<[k |-> "all", v |-> "0000 00b"]>>>>,
      <<"OffsetFigure.REGEX_GRID[1]", "00b", <<[k |-> "all", v |-> "00b"]>>>>,
      <<"OffsetFigure.REGEX_GRID[1]", "02h", <<[k |-> "all", v |-> "02h"]>>>>,
      <<"OffsetFigure.REGEX_GRID[1]", "Yes", <<[k |-> "all", v |-> "Yes"]>>>>,
      <<"OffsetFigure.REGEX_GRID[1]", "Get Log Page", <<[k |-> "all", v |-> "Get Log Page"]>>>>,
      <<"OffsetFigure.REGEX_GRID[1]", "U+00A75.1", <<[k |-> "all", v |-> "U+00A75.1"]>>>>,
      <<"OffsetFigure.REGEX_GRID[2]", "eh", <<[k |-> "reset", v |-> "eh"]>>>>,
      <<"OffsetFigure.REGEX_GRID[2]", "02h", <<[k |-> "reset", v |-> "02h"]>>>>,
      <<"PropertyDefinitionFigure.REGEX_GRID[0]", "eh", <<[k |-> "hex", v |-> "eh"]>>>>,
      <<"PropertyDefinitionFigure.REGEX_GRID[0]", "02h", <<[k |-> "hex", v |-> "02h"]>>>>,
      <<"PropertyDefinitionFigure.REGEX_GRID[1]", "Figure", <<[k |-> "number", v |-> None]>>>>,
      <<"PropertyDefinitionFigure.REGEX_GRID[1]", "Value", <<[k |-> "number", v |-> None]>>>>,
      <<"PropertyDefinitionFigure.REGEX_GRID[1]", "Description", <<[k |-> "number", v |-> None]>>>>,
      <<"PropertyDefinitionFigure.REGEX_GRID[1]", "eh", <<[k |-> "number", v |-> None]>>>>,
      <<"PropertyDefinitionFigure.REGEX_GRID[1]", "U+00E9h", <<[k |-> "number", v |-> None]>>>>,
      <<"PropertyDefinitionFigure.REGEX_GRID[1]", "", <<[k |-> "number", v |-> None]>>>>,
      <<"PropertyDefinitionFigure.REGEX_GRID[1]", "Function", <<[k |-> "number", v |-> None]>>>>,
      <<"PropertyDefinitionFigure.REGEX_GRID[1]", "Data Transfer", <<[k |-> "number", v |-> None]>>>>,
      <<"PropertyDefinitionFigure.REGEX_GRID[1]", "Combined Opcode", <<[k |-> "number", v |-> None]>>>>,
      <<"PropertyDefinitionFigure.REGEX_GRID[1]", "Namespace Identifier Used", <<[k |-> "number", v |-> None]>>>>,
      <<"PropertyDefinitionFigure.REGEX_GRID[1]", "Command", <<[k |-> "number", v |-> None]>>>>,
      <<"PropertyDefinitionFigure.REGEX_GRID[1]", "Reference", <<[k |-> "number", v |-> None]>>>>,
      <<"PropertyDefinitionFigure.REGEX_GRID[1]", "0000 00b", <<[k |-> "number", v |-> "0000"]>>>>,
      <<"PropertyDefinitionFigure.REGEX_GRID[1]", "00b", <<[k |-> "number", v |-> "00"]>>>>,
      <<"PropertyDefinitionFigure.REGEX_GRID[1]", "02h", <<[k |-> "number", v |-> "02"]>>>>,
      <<"PropertyDefinitionFigure.REGEX_GRID[1]", "Yes", <<[k |-> "number", v |-> None]>>>>,
      <<"PropertyDefinitionFigure.REGEX_GRID[1]", "Get Log Page", <<[k |-> "number", v |-> None]>>>>,
      <<"PropertyDefinitionFigure.REGEX_GRID[1]", "U+00A75.1", <<[k |-> "number", v |-> None]>>>>,
      <<"PropertyDefinitionFigure.REGEX_GRID[2]", "", <<[k |-> "req_ioc", v |-> None]>>>>,
      <<"PropertyDefinitionFigure.REGEX_GRID[3]", "", <<[k |-> "req_ac", v |-> None]>>>>,
      <<"PropertyDefinitionFigure.REGEX_GRID[4]", "", <<[k |-> "req_dc", v |-> None]>>>>,
      <<"PropertyDefinitionFigure.REGEX_GRID[5]", "Figure", <<[k |-> "name", v |-> "Figure"], [k |-> "acronym", v |-> None], [k |-> "description", v |-> None]>>>>,
      <<"PropertyDefinitionFigure.REGEX_GRID[5]", "Value", <<[k |-> "name", v |-> "Value"], [k |-> "acronym", v |-> None], [k |-> "description", v |-> None]>>>>,
      <<"PropertyDefinitionFigure.REGEX_GRID[5]", "Description", <<[k |-> "name", v |-> "Description"], [k |-> "acronym", v |-> None], [k |-> "description", v |-> None]>>>>,
      <<"PropertyDefinitionFigure.REGEX_GRID[5]", "eh", <<[k |-> "name", v |-> "eh"], [k |-> "acronym", v |-> None], [k |-> "description", v |-> None]>>>>,
      <<"PropertyDefinitionFigure.REGEX_GRID[5]", "U+00E9h", <<[k |-> "name", v |-> "U+00E9h"], [k |-> "acronym", v |-> None], [k |-> "description", v |-> None]>>>>,
      <<"PropertyDefinitionFigure.REGEX_GRID[5]", "Function", <<[k |-> "name", v |-> "Function"], [k |-> "acronym", v |-> None], [k |-> "description", v |-> None]>>>>,
      <<"PropertyDefinitionFigure.REGEX_GRID[5]", "Data Transfer", <<[k |-> "name", v |-> "Data Transfer"], [k |-> "acronym", v |-> None], [k |-> "description", v |-> None]>>>>,
      <<"PropertyDefinitionFigure.REGEX_GRID[5]", "Combined Opcode", <<[k |-> "name", v |-> "Combined Opcode"], [k |-> "acronym", v |-> None], [k |-> "description", v |-> None]>>>>,
      <<"PropertyDefinitionFigure.REGEX_GRID[5]", "Namespace Identifier Used", <<[k |-> "name", v |-> "Namespace Identifier Used"], [k |-> "acronym", v |-> None], [k |-> "description", v |-> None]>>>>,
      <<"PropertyDefinitionFigure.REGEX_GRID[5]", "Command", <<[k |-> "name", v |-> "Command"], [k |-> "acronym", v |-> None], [k |-> "description", v |-> None]>>>>,
      <<"PropertyDefinitionFigure.REGEX_GRID[5]", "Reference", <<[k |-> "name", v |-> "Reference"], [k |-> "acronym", v |-> None], [k |-> "description", v |-> None]>>>>,
      <<"PropertyDefinitionFigure.REGEX_GRID[5]", "0000 00b", <<[k |-> "name", v |-> "0000 00b"], [k |-> "acronym", v |-> None], [k |-> "description", v |-> None]>>>>,
      <<"PropertyDefinitionFigure.REGEX_GRID[5]", "00b", <<[k |-> "name", v |-> "00b"], [k |-> "acronym", v |-> None], [k |-> "description", v |-> None]>>>>,
      <<"PropertyDefinitionFigure.REGEX_GRID[5]", "02h", <<[k |-> "name", v |-> "02h"], [k |-> "acronym", v |-> None], [k |-> "description", v |-> None]>>>>,
      <<"PropertyDefinitionFigure.REGEX_GRID[5]", "Yes", <<[k |-> "name", v |-> "Yes"], [k |-> "acronym", v |-> None], [k |-> "description", v |-> None]>>>>,
      <<"PropertyDefinitionFigure.REGEX_GRID[5]", "Get Log Page", <<[k |-> "name", v |-> "Get Log Page"], [k |-> "acronym", v |-> None], [k |-> "description", v |-> None]>>>> }

\* The (header pattern, value pattern) pair of a column of REGEX_GRID.
regex_pair(col) ==
    CASE col = "REGEX_GRID_RANGE" ->
         << "(Bits|Bytes).*",
            "(?!Note|specficiation)(?:(?P<upper>[0-9 \\w\\+\\*]+):)?(?P<lower>[0-9 \\w\\+\\*]+)" >>
    [] col = "REGEX_GRID_FIELD_DESCRIPTION" ->
         << "(Definition|Description).*",
            "(?P<name>[ \\/\\-\\w]+)(\\((?P<acronym>[^\\)]+)\\))?(:\\s*(?P<description>.*))?" >>
    [] col = "REGEX_GRID_REQUIREMENTS" ->
         << "^(((:?Command|Feature).+Support.+Requirements)|(:?O\\/M)).*$",
            "^(?:(?P<requirement>O|M|P|NR)(?:[ \\d]*))?$" >>
    [] col = "REGEX_GRID_ACRONYM" ->
         << "(Term|Acronym).*",
            "(?P<term>.*)" >>
    [] col = "REGEX_GRID_EXPLANATION" ->
         << "(Definition|Description).*",
            "(?P<description>.*)" >>
    [] col = "REGEX_GRID_COMMAND_NAME" ->
         << "(Command).*",
            "^(?P<command_name>[a-zA-Z -/]*)[ \\d]*$" >>
    [] col = "CnsValueFigure.REGEX_GRID[0]" ->
         << "(CNS.Value).*",
            "^(?P<cns_value>[a-zA-Z0-9]{1,2}h)$" >>
    [] col = "CnsValueFigure.REGEX_GRID[1]" ->
         << "(O\\/M).*",
            "^(?:(?P<requirement>O|M|P|NR)(?:[ \\d]*))?$" >>
    [] col = "REGEX_GRID_USES_NSID" ->
         << "(Namespace.Identifier.Used|NSID).*",
            "(?P<uses_nsid>NOTE|Note|Yes|No|Y|N)[ \\d]*?" >>
    [] col = "REGEX_GRID_USES_CNTID" ->
         << "(CNTID).*",
            "(?P<uses_cntid>NOTE|Note|Yes|No|Y|N)[ \\d]*?" >>
    [] col = "REGEX_GRID_USES_CSI" ->
         << "(CSI).*",
            "(?P<uses_csi>NOTE|Note|Yes|No|Y|N)[ \\d]*?" >>
    [] col = "REGEX_GRID_REFERENCE" ->
         << "(Reference).*",
            "(?P<reference>.*)" >>
    [] col = "REGEX_GRID_BITS_FUNCTION" ->
         << "(Bits|Function).*",
            "(?P<bitstr>\\d{4}\\s\\d{2}b)" >>
    [] col = "REGEX_GRID_BITS_TRANSFER" ->
         << "(Data.Transfer).*",
            "(?P<function>\\d{2}b)" >>
    [] col = "REGEX_GRID_COMMAND_OPCODE" ->
         << "(Combined.Opcode).*",
            "^(?P<opcode>[a-zA-Z0-9]{1,2}h)$" >>
    [] col = "REGEX_GRID_VALUE" ->
         << "(Value).*",
            "^(?P<value>[a-zA-Z0-9]{1,2}h)$" >>
    [] col = "REGEX_GRID_VALUE_DESCRIPTION" ->
         << "(Definition|Description).*",
            "(?P<name>[ \\w]+)(:\\s*(?P<description>.*))?" >>
    [] col = "REGEX_GRID_COMMANDS_AFFECTED" ->
         << "(Commands.Affected).*",
            "(?P<comma>.*)" >>
    [] col = "REGEX_GRID_FEATURE_IDENTIFIER" ->
         << "(Feature.Identifier).*",
            "^(?P<feature_identifier>[a-zA-Z0-9]{1,2}h)$" >>
    [] col = "REGEX_GRID_FEATURE_PAPCR" ->
         << "(Persistent.Across.Power.Cycle.and.Reset)",
            "(?P<persist>NOTE|Note|Yes|No|Y|N)[ \\d]*?" >>
    [] col = "REGEX_GRID_FEATURE_UMBFA" ->
         << "(Uses.Memory.Buffer.for.Attributes)",
            "(?P<membuf>NOTE|Note|Yes|No|Y|N)[ \\d]*?" >>
    [] col = "REGEX_GRID_SCOPE" ->
         << "(Scope|Scope.and.Support).*",
            "(?P<scope>.*)" >>
    [] col = "VersionDescriptorFieldValueFigure.REGEX_GRID[0]" ->
         << "(Specification.Version.).*",
            "^(?P<version>\\d\\.\\d)$" >>
    [] col = "VersionDescriptorFieldValueFigure.REGEX_GRID[1]" ->
         << "(MJR.Field).*",
            "^(?P<version_major>[a-zA-Z0-9]{1,2}h)$" >>
    [] col = "VersionDescriptorFieldValueFigure.REGEX_GRID[2]" ->
         << "(MNR.Field).*",
            "^(?P<version_minor>[a-zA-Z0-9]{1,2}h)$" >>
    [] col = "VersionDescriptorFieldValueFigure.REGEX_GRID[3]" ->
         << "(TER.Field).*",
            "^(?P<version_tertiary>[a-zA-Z0-9]{1,2}h)$" >>
    [] col = "REGEX_GRID_FEATURE_NAME" ->
         << "(Feature.Name).*",
            "^(?P<feature_name>[a-zA-Z -/]*)[ \\d]*$" >>
    [] col = "REGEX_GRID_LPI" ->
         << "(Log.Page.Identifier).*",
            "^(?P<log_page_identifier>[a-zA-Z0-9]{1,2}h)$" >>
    [] col = "REGEX_GRID_LPN" ->
         << "(Log.Page.Name).*",
            "(?P<log_page_name>.*)" >>
    [] col = "OffsetFigure.REGEX_GRID[1]" ->
         << "(Type).*",
            "(?P<all>.*)" >>
    [] col = "OffsetFigure.REGEX_GRID[2]" ->
         << "(Reset).*",
            "^(?P<reset>[a-zA-Z0-9]{1,2}h)$" >>
    [] col = "PropertyDefinitionFigure.REGEX_GRID[0]" ->
         << "(Offset.\\(OFST\\)).*",
            "^(?P<hex>[a-zA-Z0-9]{1,2}h)$" >>
    [] col = "PropertyDefinitionFigure.REGEX_GRID[1]" ->
         << "(Size.\\(in.bytes\\)).*",
            "(?P<number>\\d+)?.*" >>
    [] col = "PropertyDefinitionFigure.REGEX_GRID[2]" ->
         << "(I/O Controller).*",
            "^(?:(?P<req_ioc>O|M|P|NR)(?:[ \\d]*))?$" >>
    [] col = "PropertyDefinitionFigure.REGEX_GRID[3]" ->
         << "(Administrative.Controller).*",
            "^(?:(?P<req_ac>O|M|P|NR)(?:[ \\d]*))?$" >>
    [] col = "PropertyDefinitionFigure.REGEX_GRID[4]" ->
         << "(Discovery.Controller).*",
            "^(?:(?P<req_dc>O|M|P|NR)(?:[ \\d]*))?$" >>
    [] col = "PropertyDefinitionFigure.REGEX_GRID[5]" ->
         << "(Name).*",
            "(?P<name>[ \\/\\-\\w]+)(\\((?P<acronym>[^\\)]+)\\))?(:\\s*(?P<description>.*))?" >>

\* re.compile(val_regex).groupindex.keys() of the value pattern of a column
groupindex(col) ==
    CASE col = "REGEX_GRID_RANGE" -> << "upper", "lower" >>
    [] col = "REGEX_GRID_FIELD_DESCRIPTION" -> << "name", "acronym", "description" >>
    [] col = "REGEX_GRID_REQUIREMENTS" -> << "requirement" >>
    [] col = "REGEX_GRID_ACRONYM" -> << "term" >>
    [] col = "REGEX_GRID_EXPLANATION" -> << "description" >>
    [] col = "REGEX_GRID_COMMAND_NAME" -> << "command_name" >>
    [] col = "CnsValueFigure.REGEX_GRID[0]" -> << "cns_value" >>
    [] col = "CnsValueFigure.REGEX_GRID[1]" -> << "requirement" >>
    [] col = "REGEX_GRID_USES_NSID" -> << "uses_nsid" >>
    [] col = "REGEX_GRID_USES_CNTID" -> << "uses_cntid" >>
    [] col = "REGEX_GRID_USES_CSI" -> << "uses_csi" >>
    [] col = "REGEX_GRID_REFERENCE" -> << "reference" >>
    [] col = "REGEX_GRID_BITS_FUNCTION" -> << "bitstr" >>
    [] col = "REGEX_GRID_BITS_TRANSFER" -> << "function" >>
    [] col = "REGEX_GRID_COMMAND_OPCODE" -> << "opcode" >>
    [] col = "REGEX_GRID_VALUE" -> << "value" >>
    [] col = "REGEX_GRID_VALUE_DESCRIPTION" -> << "name", "description" >>
    [] col = "REGEX_GRID_COMMANDS_AFFECTED" -> << "comma" >>
    [] col = "REGEX_GRID_FEATURE_IDENTIFIER" -> << "feature_identifier" >>
    [] col = "REGEX_GRID_FEATURE_PAPCR" -> << "persist" >>
    [] col = "REGEX_GRID_FEATURE_UMBFA" -> << "membuf" >>
    [] col = "REGEX_GRID_SCOPE" -> << "scope" >>
    [] col = "VersionDescriptorFieldValueFigure.REGEX_GRID[0]" -> << "version" >>
    [] col = "VersionDescriptorFieldValueFigure.REGEX_GRID[1]" -> << "version_major" >>
    [] col = "VersionDescriptorFieldValueFigure.REGEX_GRID[2]" -> << "version_minor" >>
    [] col = "VersionDescriptorFieldValueFigure.REGEX_GRID[3]" -> << "version_tertiary" >>
    [] col = "REGEX_GRID_FEATURE_NAME" -> << "feature_name" >>
    [] col = "REGEX_GRID_LPI" -> << "log_page_identifier" >>
    [] col = "REGEX_GRID_LPN" -> << "log_page_name" >>
    [] col = "OffsetFigure.REGEX_GRID[1]" -> << "all" >>
    [] col = "OffsetFigure.REGEX_GRID[2]" -> << "reset" >>
    [] col = "PropertyDefinitionFigure.REGEX_GRID[0]" -> << "hex" >>
    [] col = "PropertyDefinitionFigure.REGEX_GRID[1]" -> << "number" >>
    [] col = "PropertyDefinitionFigure.REGEX_GRID[2]" -> << "req_ioc" >>
    [] col = "PropertyDefinitionFigure.REGEX_GRID[3]" -> << "req_ac" >>
    [] col = "PropertyDefinitionFigure.REGEX_GRID[4]" -> << "req_dc" >>
    [] col = "PropertyDefinitionFigure.REGEX_GRID[5]" -> << "name", "acronym", "description" >>

\* re.compile(cls.REGEX_FIGURE_DESCRIPTION).groupindex.keys()
description_groupindex(cls) ==
    CASE cls = "DataStructureFigure" -> <<  >>
    [] cls = "IdentifyDataStructureFigure" -> <<  >>
    [] cls = "AcronymsFigure" -> <<  >>
    [] cls = "IoControllerCommandSetSupportRequirementFigure" -> << "command_set_name" >>
    [] cls = "CommandSupportRequirementFigure" -> << "command_span" >>
    [] cls = "CnsValueFigure" -> <<  >>
    [] cls = "CommandSqeDataPointerFigure" -> << "command_name" >>
    [] cls = "ExampleFigure" -> <<  >>
    [] cls = "CommandSqeMetadataPointer" -> << "command_name" >>
    [] cls = "CommandSqeDwordLowerUpperFigure" -> << "command_name", "command_dword_lower", "command_dword_upper" >>
    [] cls = "CommandSqeDwordFigure" -> << "command_name", "command_dword" >>
    [] cls = "IdentifyCommandSqeDwordFigure" -> << "command_dword" >>
    [] cls = "CommandCqeDwordFigure" -> << "command_name", "command_dword" >>
    [] cls = "CommandAdminOpcodeFigure" -> << "command_set_name" >>
    [] cls = "CommandIoOpcodeFigure" -> << "command_set_name" >>
    [] cls = "GeneralCommandStatusValueFigure" -> <<  >>
    [] cls = "GenericCommandStatusValueFigure" -> << "command_name" >>
    [] cls = "CommandSpecificStatusValueFigure" -> << "command_name" >>
    [] cls = "FeatureIdentifierFigure" -> <<  >>
    [] cls = "VersionDescriptorFieldValueFigure" -> <<  >>
    [] cls = "HostSoftwareSpecifiedFieldFigure" -> <<  >>
    [] cls = "FeatureSupportFigure" -> <<  >>
    [] cls = "LogPageIdentifierFigure" -> <<  >>
    [] cls = "OffsetFigure" -> <<  >>
    [] cls = "PropertyDefinitionFigure" -> <<  >>

(***************************************************************************)
(* Pattern matching.                                                       *)
(***************************************************************************)
NoMatch == [matched |-> FALSE, groupdict |-> <<>>]

\* re.match(cls.REGEX_FIGURE_DESCRIPTION, description, flags=re.IGNORECASE)
match_description(cls, description) ==
    IF \E t \in DescriptionMatches : t[1] = cls /\ t[2] = description
    THEN [matched |-> TRUE,
          groupdict |-> (CHOOSE t \in DescriptionMatches :
                            t[1] = cls /\ t[2] = description)[3]]
    ELSE NoMatch

\* match.group(1) if match else match, for a header pattern
match_header(col, text) ==
    IF \E t \in HeaderMatches : t[1] = col /\ t[2] = text
    THEN (CHOOSE t \in HeaderMatches : t[1] = col /\ t[2] = text)[3]
    ELSE None

\* re.match(regex, text) for a value pattern
match_value(col, text) ==
    IF \E t \in ValueMatches : t[1] = col /\ t[2] = text
    THEN [matched |-> TRUE,
          groupdict |-> (CHOOSE t \in ValueMatches :
                            t[1] = col /\ t[2] = text)[3]]
    ELSE NoMatch

(***************************************************************************)
(* Figures, tables and diagnostics.                                        *)
(***************************************************************************)
\* figure.table is None
NoTable == [is_none |-> TRUE, rows |-> <<>>]

\* senfd.tables.Table: rows of cells; a cell is its text.
Table(rows) == [is_none |-> FALSE, rows |-> rows]

\* The fields of plain.Figure.
FigureFields == {"figure_nr", "caption", "description", "page_nr", "table"}

\* senfd.errors: a diagnostic; an index that the kind does not carry is -1.
Error(kind, figure_nr, row_idx, cell_idx, message) ==
    [kind |-> kind, figure_nr |-> figure_nr, row_idx |-> row_idx,
     cell_idx |-> cell_idx, message |-> message]

\* figure.model_dump().keys() of an instance of cls
model_dump_keys(cls) == FigureFields \cup {"grid"} \cup ClsFields(cls)

\* FromFigureDocument.check_regex
check_regex(cls, match) ==
    IF model_dump_keys(cls) \cap Range(Keys(match.groupdict)) # {}
    THEN << Error("ImplementationError", -1, -1, -1, "has overlap") >>
    ELSE <<>>

\* Mutant: rows of varying lengths are a blocking error.
check_table_data_blocking(figure) ==
    IF figure.table.is_none
    THEN [error |-> << Error("FigureTableMissingError", figure.figure_nr,
                             -1, -1, "Missing table") >>,
          non_blocking |-> <<>>]
    ELSE IF Len(figure.table.rows) < 2
    THEN [error |-> << Error("FigureTableMissingRowsError", figure.figure_nr,
                             -1, -1, "Number of rows < 2") >>,
          non_blocking |-> <<>>]
    ELSE IF Cardinality({ Len(row) : row \in Range(figure.table.rows) }) # 1
    THEN [error |-> << Error("IrregularTableError", figure.figure_nr,
                             -1, -1, "Varying row lengths") >>,
          non_blocking |-> <<>>]
    ELSE [error |-> <<>>, non_blocking |-> <<>>]

\* Mutant: the error of a table of fewer than 2 rows is reported as
\* non-blocking diagnostic as well.
check_table_data_twice(figure) ==
    IF figure.table.is_none
    THEN [error |-> << Error("FigureTableMissingError", figure.figure_nr,
                             -1, -1, "Missing table") >>,
          non_blocking |-> <<>>]
    ELSE IF Len(figure.table.rows) < 2
    THEN [error |-> << Error("FigureTableMissingRowsError", figure.figure_nr,
                             -1, -1, "Number of rows < 2") >>,
          non_blocking |-> << Error("FigureTableMissingRowsError",
                                    figure.figure_nr, -1, -1,
                                    "Number of rows < 2") >>]
    ELSE IF Cardinality({ Len(row) : row \in Range(figure.table.rows) }) # 1
    THEN [error |-> <<>>,
          non_blocking |-> << Error("IrregularTableError", figure.figure_nr,
                                    -1, -1, "Varying row lengths") >>]
    ELSE [error |-> <<>>, non_blocking |-> <<>>]

\* FromFigureDocument.check_table_data: (blocking error or none, non-blocking)
check_table_data(figure) ==
    IF figure.table.is_none
    THEN [error |-> << Error("FigureTableMissingError", figure.figure_nr,
                             -1, -1, "Missing table") >>,
          non_blocking |-> <<>>]
    ELSE IF Len(figure.table.rows) < 2
    THEN [error |-> << Error("FigureTableMissingRowsError", figure.figure_nr,
                             -1, -1, "Number of rows < 2") >>,
          non_blocking |-> <<>>]
    ELSE IF Cardinality({ Len(row) : row \in Range(figure.table.rows) }) # 1
    THEN [error |-> <<>>,
          non_blocking |-> << Error("IrregularTableError", figure.figure_nr,
                                    -1, -1, "Varying row lengths") >>]
    ELSE [error |-> <<>>, non_blocking |-> <<>>]

\* FromFigureDocument.check_grid
check_grid(figure_nr, grid) ==
    (IF grid.headers = <<>>
     THEN << Error("FigureNoGridHeaders", figure_nr, -1, -1,
                   "Grid is missing headers") >>
     ELSE <<>>)
    \o (IF grid.fields = <<>>
        THEN << Error("FigureNoGridHeaders", figure_nr, -1, -1,
                      "Grid is missing fields") >>
        ELSE <<>>)
    \o (IF grid.values = <<>>
        THEN << Error("FigureNoGridValues", figure_nr, -1, -1,
                      "Grid is missing values") >>
        ELSE <<>>)

(***************************************************************************)
(* FromFigureDocument.enrich: the loop over the rows after the caption     *)
(* row.  The loop state is (header_names, fields, values, errors).         *)
(***************************************************************************)
LoopInit == [header_names |-> <<>>, fields |-> <<>>, values |-> <<>>,
             errors |-> <<>>]

\* Mutant: a row that fails header matching is skipped without a diagnostic.
header_row_silent(cls, figure_nr, st, row, row_idx) ==
    LET regex_hdr == REGEX_GRID(cls)
        n == Min(Len(row), Len(regex_hdr))
        header_matches ==
            [i \in 1..n |-> match_header(regex_hdr[i], header_text(row[i]))]
    IN  IF \A i \in 1..n : header_matches[i] # None /\ header_matches[i] # ""
        THEN [st EXCEPT !.header_names = header_matches]
        ELSE st

\* The branch `if not header_names`: match the cells against the header
\* patterns, pairwise (zip stops at the shorter of cells and patterns).
header_row(cls, figure_nr, st, row, row_idx) ==
    LET regex_hdr == REGEX_GRID(cls)
        n == Min(Len(row), Len(regex_hdr))
        header_matches ==
            [i \in 1..n |-> match_header(regex_hdr[i], header_text(row[i]))]
    IN  IF \A i \in 1..n : header_matches[i] # None /\ header_matches[i] # ""
        THEN [st EXCEPT !.header_names = header_matches]
        ELSE [st EXCEPT !.errors =
                 Append(@, Error("FigureTableRowError", figure_nr, row_idx,
                                 -1, "No match REGEX_GRID/Headers"))]

RECURSIVE match_cells(_, _, _, _, _, _)
\* The inner loop over zip(row.cells, regex_val), from cell i on:
\* (combined, value_errors).
match_cells(regex_val, figure_nr, row, row_idx, i, acc) ==
    IF i > Min(Len(row), Len(regex_val)) THEN acc
    ELSE LET m == match_value(regex_val[i], value_text(row[i]))
         IN  match_cells(regex_val, figure_nr, row, row_idx, i + 1,
                 IF m.matched
                 THEN [acc EXCEPT
                          !.combined = DictUpdate(@, m.groupdict)]
                 ELSE [acc EXCEPT
                          !.value_errors =
                              Append(@, Error("FigureTableRowCellError",
                                              figure_nr, row_idx, i - 1,
                                              "no match"))])

\* Mutant: a row whose cells all match is not appended to the values.
value_row_dropped(cls, figure_nr, st, row, row_idx) ==
    LET acc == match_cells(REGEX_GRID(cls), figure_nr, row, row_idx, 1,
                           [combined |-> <<>>, value_errors |-> <<>>])
        cur_fields == Keys(acc.combined)
        fields == IF st.fields = <<>> THEN cur_fields ELSE st.fields
    IN  IF acc.value_errors # <<>>
        THEN [st EXCEPT !.errors = @ \o acc.value_errors]
        ELSE [st EXCEPT !.fields = fields]

\* Mutant: the captures of the cells that match are appended although a
\* cell of the row does not match.
value_row_partial(cls, figure_nr, st, row, row_idx) ==
    LET acc == match_cells(REGEX_GRID(cls), figure_nr, row, row_idx, 1,
                           [combined |-> <<>>, value_errors |-> <<>>])
        cur_fields == Keys(acc.combined)
        fields == IF st.fields = <<>> THEN cur_fields ELSE st.fields
    IN  [st EXCEPT !.fields = fields,
                   !.values = Append(@, Values(acc.combined)),
                   !.errors = @ \o acc.value_errors]

\* Mutant: the captures of a row are put in front of the values.
value_row_prepend(cls, figure_nr, st, row, row_idx) ==
    LET acc == match_cells(REGEX_GRID(cls), figure_nr, row, row_idx, 1,
                           [combined |-> <<>>, value_errors |-> <<>>])
        cur_fields == Keys(acc.combined)
        fields == IF st.fields = <<>> THEN cur_fields ELSE st.fields
        diff == Range(cur_fields) \ Range(fields)
    IN  IF acc.value_errors # <<>>
        THEN [st EXCEPT !.errors = @ \o acc.value_errors]
        ELSE IF diff # {}
        THEN [st EXCEPT !.fields = fields,
                        !.errors =
                            Append(@, Error("FigureTableRowError", figure_nr,
                                            row_idx, -1, "Unexpected fields"))]
        ELSE [st EXCEPT !.fields = fields,
                        !.values = << Values(acc.combined) >> \o @]

\* The rest of the loop body: a row after the accepted header row.
value_row(cls, figure_nr, st, row, row_idx) ==
    LET acc == match_cells(REGEX_GRID(cls), figure_nr, row, row_idx, 1,
                           [combined |-> <<>>, value_errors |-> <<>>])
        cur_fields == Keys(acc.combined)
        fields == IF st.fields = <<>> THEN cur_fields ELSE st.fields
        diff == Range(cur_fields) \ Range(fields)
    IN  IF acc.value_errors # <<>>
        THEN [st EXCEPT !.errors = @ \o acc.value_errors]
        ELSE IF diff # {}
        THEN [st EXCEPT !.fields = fields,
                        !.errors =
                            Append(@, Error("FigureTableRowError", figure_nr,
                                            row_idx, -1, "Unexpected fields"))]
        ELSE [st EXCEPT !.fields = fields,
                        !.values = Append(@, Values(acc.combined))]

\* One iteration of `for row_idx, row in enumerate(enriched.table.rows[1:], 1)`
loop_body(cls, figure_nr, st, row, row_idx) ==
    IF st.header_names = <<>>
    THEN header_row(cls, figure_nr, st, row, row_idx)
    ELSE value_row(cls, figure_nr, st, row, row_idx)

RECURSIVE loop(_, _, _, _)
\* The loop state after the rows with row_idx 1..n (rows[k + 1] has
\* row_idx k: sequences count from 1, Python lists from 0).
loop(cls, figure_nr, rows, n) ==
    IF n = 0 THEN LoopInit
    ELSE loop_body(cls, figure_nr, loop(cls, figure_nr, rows, n - 1),
                   rows[n + 1], n)

\* enrich returns None for the figure
NoFigure == [is_none |-> TRUE]

\* cls(**data): the figure, the captures that cls declares as fields (the
\* others are dropped), and the grid.
EnrichedFigure(cls, figure, match, grid) ==
    [is_none |-> FALSE, cls |-> cls, figure |-> figure,
     captures |-> SelectSeq(match.groupdict,
                            LAMBDA e : e.k \in ClsFields(cls)),
     grid |-> grid]

\* senfd.tables.Grid()
EmptyGrid == [headers |-> <<>>, fields |-> <<>>, values |-> <<>>]

\* FromFigureDocument.enrich(cls, figure, match): (enriched or None, errors)
enrich(cls, figure, match) ==
    LET errors0 == check_regex(cls, match)
        checked == check_table_data(figure)
        errors1 == errors0 \o checked.non_blocking
    IN  IF checked.error # <<>>
        THEN [enriched |-> NoFigure, errors |-> errors1 \o checked.error]
        ELSE LET st == loop(cls, figure.figure_nr, figure.table.rows,
                            Len(figure.table.rows) - 1)
                 grid == [headers |-> st.header_names, fields |-> st.fields,
                          values |-> st.values]
             IN  [enriched |-> EnrichedFigure(cls, figure, match, grid),
                  errors |-> errors1 \o st.errors
                             \o check_grid(figure.figure_nr, grid)]

(***************************************************************************)
(* The catalog as the converter sees it.                                   *)
(***************************************************************************)
\* issubclass(cls, EnrichedFigure)
IsEnrichedFigure(cls) == cls = "EnrichedFigure" \/ cls \in Range(Declared)

\* Mutant: the variants in the order of their definition in the module.
classes_in_declaration_order == Declared

\* hasattr(cls, attr) for REGEX_FIGURE_DESCRIPTION and REGEX_GRID: every
\* variant declares both, EnrichedFigure and the other classes neither.
hasattr(cls, attr) ==
    /\ attr \in { "REGEX_FIGURE_DESCRIPTION", "REGEX_GRID" }
    /\ cls \in Range(Declared)

\* Mutant: EnrichedFigure itself is among the classes.
get_figure_enriching_classes_with_base ==
    SelectSeq(getmembers, LAMBDA cls : IsEnrichedFigure(cls))

\* FromFigureDocument.get_figure_enriching_classes: inspect.getmembers lists
\* the classes of the module sorted by name; every variant of the catalog
\* has REGEX_FIGURE_DESCRIPTION.
get_figure_enriching_classes ==
    SelectSeq(getmembers,
              LAMBDA cls : /\ IsEnrichedFigure(cls)
                           /\ cls # "EnrichedFigure"
                           /\ hasattr(cls, "REGEX_FIGURE_DESCRIPTION"))

\* The candidates of `for candidate in figure_organizers` whose pattern
\* matches; the loop stops at the first of them.
Candidates(figure_organizers, description) ==
    SelectSeq(figure_organizers,
              LAMBDA cls : match_description(cls, description).matched)

\* Mutant: the figure is put in front of the bucket.
into_document_front(enriched, doc) ==
    [doc EXCEPT ![into_document_key(enriched.cls)] = << enriched >> \o @]

\* EnrichedFigure.into_document
into_document(enriched, doc) ==
    [doc EXCEPT ![into_document_key(enriched.cls)] = Append(@, enriched)]

\* The attributes of EnrichedFigureDocument that hold figures.
Buckets ==
    { into_document_key(cls) : cls \in Range(Declared) }
        \cup {"nontabular", "uncategorized"}

VariantBuckets == Buckets \ {"nontabular", "uncategorized"}

(***************************************************************************)
(* Input pools.                                                            *)
(***************************************************************************)
Descriptions ==
    { << "Opcodes for Admin Commands" >>,
      << "Identify ", "U+2013", " Data Pointer" >>,
      << "Flush - Generic Command Status Values" >>,
      << "Identify Controller Data Structure Example" >>,
      << "Decimal and Binary Units" >> }

\* Cell texts.
tFigure == << "Figure" >>
tValue == << "Value" >>
tDescription == << "Description" >>
tHex == << "U+00E9", "h" >>
tEmpty == << "" >>

\* The tables of the figures of an input document: no row, the caption row
\* alone, a header and a value row, a further short value row, and a row of
\* no cell after the header.
TablePool ==
    { << >>,
      << << tFigure, tFigure >> >>,
      << << tFigure, tFigure >>, << tValue, tDescription >>,
         << tHex, tDescription >> >>,
      << << tFigure, tFigure >>, << tValue, tDescription >>,
         << tHex, tDescription >>, << tHex >> >>,
      << << tFigure, tFigure >>, << tValue, tDescription >>, << >> >> }

DocTables == { rows \in TablePool : Len(rows) <= MaxRows }

\* A figure but for its number.
FigurePool ==
    { [description |-> d, table |-> t] :
        d \in Descriptions,
        t \in {NoTable} \cup { Table(rows) : rows \in DocTables } }

\* A document of the figures fs: numbered 1, 2, ... in the order of the list.
Numbered(fs) ==
    [i \in DOMAIN fs |->
        [figure_nr |-> i, description |-> fs[i].description,
         table |-> fs[i].table]]

(***************************************************************************)
(* FromFigureDocument.convert as a state machine: one step per figure.     *)
(***************************************************************************)
VARIABLES
    figures,     \* figure_document.figures
    idx,         \* number of figures the loop has processed
    document,    \* the EnrichedFigureDocument: bucket -> list
    errors,      \* the run's diagnostic list
    origin,      \* history: origin[i] is the figure_nr that errors[i] came of
    classified,  \* history: figure_nr of the figures matched against patterns
    extracted,   \* history: (figure_nr, cls) of the calls of enrich
    returned,    \* convert has returned (document, errors)
    \* One call of FromFigureDocument.enrich, row by row.
    enrich_pc,   \* "check", "rows" or "done" ("idle": no call)
    enrich_args, \* the arguments (cls, figure, match)
    row_idx,     \* row_idx of the next iteration of the loop over the rows
    loop_st,     \* header_names, fields, values and errors of the call
    enrich_ret,  \* what the call returns: (enriched or None, errors)
    header_idx,  \* history: row_idx of the row that set header_names (0: none)
    value_rows,  \* history: row_idx of the rows appended to values, in order
    \* text.translate(TRANSLATION_TABLE), applied twice.
    text_pc,     \* "text", "once" or "twice" ("idle": none asked)
    text,        \* the text, character by character
    once,        \* the text translated
    twice,       \* the translated text translated
    \* snake_to_pascal(pascal_to_snake(name))
    name_pc,     \* "name", "snake" or "pascal" ("idle": none asked)
    name,        \* the name, character by character
    snake,       \* pascal_to_snake(name)
    pascal,      \* snake_to_pascal(snake)
    \* The loops of tests/test_enrichments.py over the catalog.
    test_pc,     \* the test that runs ("idle": none)
    test_cls,    \* index of `cls` in get_figure_enriching_classes()
    test_i,      \* i of `for i in range(len(list_of_sets))`
    test_j,      \* j of `for j in range(i + 1, len(list_of_sets))`
    failed,      \* the assertions that failed: (test, cls)
    \* One call of Grid.from_enriched_figure, row by row.
    grid_pc,     \* "check", "rows" or "done" ("idle": no call)
    grid_figure, \* the argument: the class of the figure and the figure
    grid_idx,    \* idx of the next iteration of the loop over the rows
    grid_st,     \* header_names, fields, values and errors of the call
    grid_ret,    \* what the call returns: (grid or None, errors)
    grid_header, \* history: idx of the row that set header_names (-1: none)
    grid_kept,   \* history: idx of the rows appended to values, in order
    \* One call of pipeline.process with its recursive calls.
    pipe_pc,     \* "call", "returned" or "raised" ("idle": no call)
    frames,      \* the call stack: (input, converter index, all_errors)
    files,       \* the files written to the output directory, in order
    applied,     \* history: the converters applied, in order
    stage_errors,\* history: the error list of each convert, in order
    pipe_ret,    \* what the outermost call returns
    \* One call of FromDocx.convert.
    docx_pc,     \* "tables", "paragraphs", "returned", "raised" or "idle"
    docx_tables, \* the caption texts of docx_document.tables
    paragraphs,  \* docx_document.paragraphs: (style name, text)
    table_idx,   \* number of tables the first loop has processed
    par_idx,     \* number of paragraphs the second loop has processed
    prev,        \* prev of the second loop
    docx_figures,\* figures: figure_nr -> Figure, in insertion order
    docx_errors  \* errors

convertVars ==
    << figures, idx, document, errors, origin, classified, extracted,
       returned >>

enrichVars ==
    << enrich_pc, enrich_args, row_idx, loop_st, enrich_ret, header_idx,
       value_rows >>

textVars == << text_pc, text, once, twice >>

nameVars == << name_pc, name, snake, pascal >>

testVars == << test_pc, test_cls, test_i, test_j, failed >>

gridVars ==
    << grid_pc, grid_figure, grid_idx, grid_st, grid_ret, grid_header,
       grid_kept >>

pipeVars == << pipe_pc, frames, files, applied, stage_errors, pipe_ret >>

docxVars ==
    << docx_pc, docx_tables, paragraphs, table_idx, par_idx, prev,
       docx_figures, docx_errors >>

vars ==
    << convertVars, enrichVars, textVars, nameVars, testVars, gridVars,
       pipeVars, docxVars >>

\* No call of convert.
ConvertIdle ==
    /\ figures = <<>>
    /\ idx = 0
    /\ document = [b \in Buckets |-> <<>>]
    /\ errors = <<>>
    /\ origin = <<>>
    /\ classified = <<>>
    /\ extracted = <<>>
    /\ returned = TRUE

\* No call of enrich on its own.
EnrichIdle ==
    /\ enrich_pc = "idle"
    /\ enrich_args = <<>>
    /\ row_idx = 0
    /\ loop_st = LoopInit
    /\ enrich_ret = <<>>
    /\ header_idx = 0
    /\ value_rows = <<>>

\* No text to translate.
TextIdle ==
    /\ text_pc = "idle"
    /\ text = <<>>
    /\ once = <<>>
    /\ twice = <<>>

\* No name to convert.
NameIdle ==
    /\ name_pc = "idle"
    /\ name = <<>>
    /\ snake = <<>>
    /\ pascal = <<>>

\* No test running.
TestIdle ==
    /\ test_pc = "idle"
    /\ test_cls = 0
    /\ test_i = 0
    /\ test_j = 0
    /\ failed = {}

\* No call of Grid.from_enriched_figure.
GridIdle ==
    /\ grid_pc = "idle"
    /\ grid_figure = <<>>
    /\ grid_idx = 0
    /\ grid_st = LoopInit
    /\ grid_ret = <<>>
    /\ grid_header = -1
    /\ grid_kept = <<>>

\* No call of pipeline.process.
PipeIdle ==
    /\ pipe_pc = "idle"
    /\ frames = <<>>
    /\ files = <<>>
    /\ applied = <<>>
    /\ stage_errors = <<>>
    /\ pipe_ret = <<>>

\* No call of FromDocx.convert.
DocxIdle ==
    /\ docx_pc = "idle"
    /\ docx_tables = <<>>
    /\ paragraphs = <<>>
    /\ table_idx = 0
    /\ par_idx = 0
    /\ prev = None
    /\ docx_figures = <<>>
    /\ docx_errors = <<>>

Init ==
    /\ \E n \in 0..MaxFigures :
          figures \in { Numbered(fs) : fs \in [1..n -> FigurePool] }
    /\ idx = 0
    /\ document = [b \in Buckets |-> <<>>]
    /\ errors = <<>>
    /\ origin = <<>>
    /\ classified = <<>>
    /\ extracted = <<>>
    /\ returned = FALSE
    /\ EnrichIdle /\ TextIdle /\ NameIdle /\ TestIdle
    /\ GridIdle /\ PipeIdle /\ DocxIdle

\* The figure of the current iteration.
figure == figures[idx + 1]

\* `not figure.table`: a Table is a pydantic model without __bool__ or
\* __len__, so only None is false.
HasTable(f) == ~f.table.is_none

\* description = figure.description.translate(TRANSLATION_TABLE)
NormalizedDescription(f) == translate(f.description)

\* The candidates that match the figure of the current iteration.
Matching(f) ==
    Candidates(get_figure_enriching_classes, NormalizedDescription(f))

\* What enrich returns for the first matching candidate.
Enriched(f) ==
    LET candidate == Head(Matching(f))
    IN  enrich(candidate, f,
               match_description(candidate, NormalizedDescription(f)))

\* Mutant: the figure without a table is appended to `uncategorized`.
ConvertNontabular_uncategorized ==
    /\ idx < Len(figures)
    /\ ~HasTable(figure)
    /\ document' = [document EXCEPT !["uncategorized"] = Append(@, figure)]
    /\ idx' = idx + 1
    /\ UNCHANGED << figures, errors, origin, classified, extracted, returned >>
    /\ UNCHANGED << enrichVars, textVars, nameVars, testVars,
                     gridVars, pipeVars, docxVars >>

\* if not figure.table: document.nontabular.append(figure); continue
ConvertNontabular ==
    /\ idx < Len(figures)
    /\ ~HasTable(figure)
    /\ document' = [document EXCEPT !["nontabular"] = Append(@, figure)]
    /\ idx' = idx + 1
    /\ UNCHANGED << figures, errors, origin, classified, extracted, returned >>
    /\ UNCHANGED << enrichVars, textVars, nameVars, testVars,
                     gridVars, pipeVars, docxVars >>

\* Mutant: the unmatched figure is appended nowhere.
ConvertUncategorized_dropped ==
    /\ idx < Len(figures)
    /\ HasTable(figure)
    /\ Matching(figure) = <<>>
    /\ classified' = Append(classified, figure.figure_nr)
    /\ idx' = idx + 1
    /\ UNCHANGED << figures, document, errors, origin, extracted, returned >>
    /\ UNCHANGED << enrichVars, textVars, nameVars, testVars,
                     gridVars, pipeVars, docxVars >>

\* No candidate matches: document.uncategorized.append(figure)
ConvertUncategorized ==
    /\ idx < Len(figures)
    /\ HasTable(figure)
    /\ Matching(figure) = <<>>
    /\ document' = [document EXCEPT !["uncategorized"] = Append(@, figure)]
    /\ classified' = Append(classified, figure.figure_nr)
    /\ idx' = idx + 1
    /\ UNCHANGED << figures, errors, origin, extracted, returned >>
    /\ UNCHANGED << enrichVars, textVars, nameVars, testVars,
                     gridVars, pipeVars, docxVars >>

\* Mutant: the diagnostics of the figure are put in front of the list.
ConvertEnriched_prepend ==
    /\ idx < Len(figures)
    /\ HasTable(figure)
    /\ Matching(figure) # <<>>
    /\ \E result \in { Enriched(figure) } :
          /\ ~result.enriched.is_none
          /\ errors' = result.errors \o errors
          /\ origin' = [i \in 1..Len(result.errors) |->
                           figure.figure_nr] \o origin
          /\ document' = into_document(result.enriched, document)
    /\ classified' = Append(classified, figure.figure_nr)
    /\ extracted' = Append(extracted, [figure_nr |-> figure.figure_nr,
                                      cls |-> Head(Matching(figure))])
    /\ idx' = idx + 1
    /\ UNCHANGED << figures, returned >>
    /\ UNCHANGED << enrichVars, textVars, nameVars, testVars,
                     gridVars, pipeVars, docxVars >>

\* A candidate matches and enrich returns the enriched figure.
ConvertEnriched ==
    /\ idx < Len(figures)
    /\ HasTable(figure)
    /\ Matching(figure) # <<>>
    /\ \E result \in { Enriched(figure) } :
          /\ ~result.enriched.is_none
          /\ errors' = errors \o result.errors
          /\ origin' = origin \o [i \in 1..Len(result.errors) |->
                                     figure.figure_nr]
          /\ document' = into_document(result.enriched, document)
    /\ classified' = Append(classified, figure.figure_nr)
    /\ extracted' = Append(extracted, [figure_nr |-> figure.figure_nr,
                                      cls |-> Head(Matching(figure))])
    /\ idx' = idx + 1
    /\ UNCHANGED << figures, returned >>
    /\ UNCHANGED << enrichVars, textVars, nameVars, testVars,
                     gridVars, pipeVars, docxVars >>

\* Mutant: a blocking error ends the conversion of the document.
ConvertBlocked_abort ==
    /\ idx < Len(figures)
    /\ HasTable(figure)
    /\ Matching(figure) # <<>>
    /\ \E result \in { Enriched(figure) } :
          /\ result.enriched.is_none
          /\ errors' = errors \o result.errors
          /\ origin' = origin \o [i \in 1..Len(result.errors) |->
                                     figure.figure_nr]
    /\ classified' = Append(classified, figure.figure_nr)
    /\ extracted' = Append(extracted, [figure_nr |-> figure.figure_nr,
                                      cls |-> Head(Matching(figure))])
    /\ idx' = Len(figures)
    /\ UNCHANGED << figures, document, returned >>
    /\ UNCHANGED << enrichVars, textVars, nameVars, testVars,
                     gridVars, pipeVars, docxVars >>

\* A candidate matches and enrich returns None: `if not enriched: break`
\* leaves the loop over the candidates with `match` set.
ConvertBlocked ==
    /\ idx < Len(figures)
    /\ HasTable(figure)
    /\ Matching(figure) # <<>>
    /\ \E result \in { Enriched(figure) } :
          /\ result.enriched.is_none
          /\ errors' = errors \o result.errors
          /\ origin' = origin \o [i \in 1..Len(result.errors) |->
                                     figure.figure_nr]
    /\ classified' = Append(classified, figure.figure_nr)
    /\ extracted' = Append(extracted, [figure_nr |-> figure.figure_nr,
                                      cls |-> Head(Matching(figure))])
    /\ idx' = idx + 1
    /\ UNCHANGED << figures, document, returned >>
    /\ UNCHANGED << enrichVars, textVars, nameVars, testVars,
                     gridVars, pipeVars, docxVars >>

\* return document, errors
Return ==
    /\ idx = Len(figures)
    /\ ~returned
    /\ returned' = TRUE
    /\ UNCHANGED << figures, idx, document, errors, origin, classified,
                    extracted >>
    /\ UNCHANGED << enrichVars, textVars, nameVars, testVars,
                     gridVars, pipeVars, docxVars >>

Next ==
    \/ ConvertNontabular
    \/ ConvertUncategorized
    \/ ConvertEnriched
    \/ ConvertBlocked
    \/ Return

Spec == Init /\ [][Next]_vars

(***************************************************************************)
(* FromFigureDocument.enrich as a state machine: one step per row of the  *)
(* table, for the calls that convert makes.                                *)
(***************************************************************************)
\* Cell texts of the table of the opcodes of the admin commands.
tFunction == << "Function" >>
tDataTransfer == << "Data Transfer" >>
tCombinedOpcode == << "Combined Opcode" >>
tNamespaceIdentifierUsed == << "Namespace Identifier Used" >>
tCommand == << "Command" >>
tReference == << "Reference" >>
tBits == << "0000 00b" >>
tTransfer == << "00b" >>
tOpcode == << "02h" >>
tYes == << "Yes" >>
tGetLogPage == << "Get Log Page" >>
tSection == << "U+00A7", "5.1" >>

\* Header and data rows without and with the column of the namespace
\* identifier, and a data row whose third cell is empty.
Header5 ==
    << tFunction, tDataTransfer, tCombinedOpcode, tCommand, tReference >>
Data5 == << tBits, tTransfer, tOpcode, tGetLogPage, tSection >>
Header6 ==
    << tFunction, tDataTransfer, tCombinedOpcode, tNamespaceIdentifierUsed,
       tCommand, tReference >>
Data6 == << tBits, tTransfer, tOpcode, tYes, tGetLogPage, tSection >>
Data6NoOpcode == << tBits, tTransfer, tEmpty, tYes, tGetLogPage, tSection >>

dAdminOpcodes == << "Opcodes for Admin Commands" >>
dGenericStatus == << "Flush - Generic Command Status Values" >>

\* The descriptions of the figures given to enrich.
EnrichDescriptions == { dAdminOpcodes, dGenericStatus }

\* The caption rows (row 0) of the tables of a description.
CaptionRows(description) ==
    IF description = dAdminOpcodes
    THEN { [i \in 1..5 |-> tFigure], [i \in 1..6 |-> tFigure] }
    ELSE { << tFigure, tFigure >> }

\* The rows after the caption row: for the status values a row of no cell,
\* short and full header rows, short and full value rows and a value row
\* whose first cell is empty.
RowPool(description) ==
    IF description = dAdminOpcodes
    THEN { Header5, Data5, Header6, Data6, Data6NoOpcode }
    ELSE { << >>, << tValue >>, << tValue, tDescription >>, << tHex >>,
           << tHex, tDescription >>, << tEmpty, tDescription >> }

\* The tables of a description: the caption row and up to MaxRows - 1 rows.
EnrichTables(description) ==
    { << caption >> \o body :
        caption \in CaptionRows(description),
        body \in UNION { [1..n -> RowPool(description)] :
                           n \in 0..(MaxRows - 1) } }

\* The calls enrich(candidate, figure, match) that convert makes for the
\* figures of a description.
EnrichCalls(description) ==
    LET candidate ==
            Head(Candidates(get_figure_enriching_classes,
                            translate(description)))
        match == match_description(candidate, translate(description))
    IN  { [cls |-> candidate,
           figure |-> [figure_nr |-> 1, description |-> description,
                       table |-> Table(rows)],
           match |-> match] :
            rows \in EnrichTables(description) }

InitEnrich ==
    /\ enrich_args \in UNION { EnrichCalls(d) : d \in EnrichDescriptions }
    /\ enrich_pc = "check"
    /\ row_idx = 0
    /\ loop_st = LoopInit
    /\ enrich_ret = <<>>
    /\ header_idx = 0
    /\ value_rows = <<>>
    /\ ConvertIdle /\ TextIdle /\ NameIdle /\ TestIdle
    /\ GridIdle /\ PipeIdle /\ DocxIdle

\* enriched.table.rows
enrich_rows == enrich_args.figure.table.rows

\* The row of the next iteration: rows[1:] enumerated from 1.
enrich_row == enrich_rows[row_idx + 1]

\* check_regex and check_table_data find a blocking error: return None.
EnrichCheckBlocked ==
    /\ enrich_pc = "check"
    /\ \E checked \in { check_table_data(enrich_args.figure) } :
          /\ checked.error # <<>>
          /\ enrich_ret' =
                [enriched |-> NoFigure,
                 errors |-> check_regex(enrich_args.cls, enrich_args.match)
                            \o checked.non_blocking \o checked.error]
    /\ enrich_pc' = "done"
    /\ UNCHANGED << enrich_args, row_idx, loop_st, header_idx, value_rows >>
    /\ UNCHANGED << convertVars, textVars, nameVars, testVars,
                     gridVars, pipeVars, docxVars >>

\* check_regex and check_table_data find no blocking error: the loop over
\* the rows starts with the errors found so far.
EnrichCheck ==
    /\ enrich_pc = "check"
    /\ \E checked \in { check_table_data(enrich_args.figure) } :
          /\ checked.error = <<>>
          /\ loop_st' =
                [LoopInit EXCEPT
                    !.errors = check_regex(enrich_args.cls, enrich_args.match)
                               \o checked.non_blocking]
    /\ enrich_pc' = "rows"
    /\ row_idx' = 1
    /\ UNCHANGED << enrich_args, enrich_ret, header_idx, value_rows >>
    /\ UNCHANGED << convertVars, textVars, nameVars, testVars,
                     gridVars, pipeVars, docxVars >>

\* An iteration with `not header_names`: the row is matched as header row.
EnrichHeaderRow ==
    /\ enrich_pc = "rows"
    /\ row_idx < Len(enrich_rows)
    /\ loop_st.header_names = <<>>
    /\ loop_st' = header_row(enrich_args.cls, enrich_args.figure.figure_nr,
                             loop_st, enrich_row, row_idx)
    /\ header_idx' = IF loop_st'.header_names # <<>> THEN row_idx ELSE 0
    /\ row_idx' = row_idx + 1
    /\ UNCHANGED << enrich_pc, enrich_args, enrich_ret, value_rows >>
    /\ UNCHANGED << convertVars, textVars, nameVars, testVars,
                     gridVars, pipeVars, docxVars >>

\* An iteration after the header row: the row is matched as value row.
EnrichValueRow ==
    /\ enrich_pc = "rows"
    /\ row_idx < Len(enrich_rows)
    /\ loop_st.header_names # <<>>
    /\ loop_st' = value_row(enrich_args.cls, enrich_args.figure.figure_nr,
                            loop_st, enrich_row, row_idx)
    /\ value_rows' = IF Len(loop_st'.values) > Len(loop_st.values)
                      THEN Append(value_rows, row_idx)
                      ELSE value_rows
    /\ row_idx' = row_idx + 1
    /\ UNCHANGED << enrich_pc, enrich_args, enrich_ret, header_idx >>
    /\ UNCHANGED << convertVars, textVars, nameVars, testVars,
                     gridVars, pipeVars, docxVars >>

\* After the last row: the grid is set, checked, and the figure returned.
EnrichReturn ==
    /\ enrich_pc = "rows"
    /\ row_idx = Len(enrich_rows)
    /\ \E grid \in { [headers |-> loop_st.header_names,
                      fields |-> loop_st.fields,
                      values |-> loop_st.values] } :
          enrich_ret' =
              [enriched |-> EnrichedFigure(enrich_args.cls,
                                           enrich_args.figure,
                                           enrich_args.match, grid),
               errors |-> loop_st.errors
                          \o check_grid(enrich_args.figure.figure_nr, grid)]
    /\ enrich_pc' = "done"
    /\ UNCHANGED << enrich_args, row_idx, loop_st, header_idx, value_rows >>
    /\ UNCHANGED << convertVars, textVars, nameVars, testVars,
                     gridVars, pipeVars, docxVars >>

NextEnrich ==
    \/ EnrichCheckBlocked
    \/ EnrichCheck
    \/ EnrichHeaderRow
    \/ EnrichValueRow
    \/ EnrichReturn

SpecEnrich == InitEnrich /\ [][NextEnrich]_vars

\* The steps return what the function returns.
EnrichStepsAgree ==
    enrich_pc = "done" =>
        enrich_ret = enrich(enrich_args.cls, enrich_args.figure,
                            enrich_args.match)

(***************************************************************************)
(* tests/test_enrichments.py: the two tests over the catalog, one step per *)
(* iteration of their loops.  A failed assertion ends its test.            *)
(***************************************************************************)
\* The class of the current iteration of `for cls in ...`.
test_class == get_figure_enriching_classes[test_cls + 1]

\* [set(re.compile(val_regex).groupindex.keys())
\*  for _, val_regex in cls.REGEX_GRID]
list_of_sets(cls) ==
    [k \in DOMAIN REGEX_GRID(cls) |->
        Range(groupindex(REGEX_GRID(cls)[k]))]

InitTest ==
    /\ test_pc = "has_regex_grid"
    /\ test_cls = 0
    /\ test_i = 0
    /\ test_j = 0
    /\ failed = {}
    /\ ConvertIdle /\ EnrichIdle /\ TextIdle /\ NameIdle
    /\ GridIdle /\ PipeIdle /\ DocxIdle

\* test_enriching_classes_has_regex_grid: one iteration.
TestHasRegexGrid ==
    /\ test_pc = "has_regex_grid"
    /\ test_cls < Len(get_figure_enriching_classes)
    /\ IF hasattr(test_class, "REGEX_GRID")
       THEN /\ test_cls' = test_cls + 1
            /\ UNCHANGED << test_pc, test_i, test_j, failed >>
       ELSE /\ failed' = failed \cup { << "has_regex_grid", test_class >> }
            /\ test_pc' = "overlap"
            /\ test_cls' = 0
            /\ test_i' = 0
            /\ test_j' = 1
    /\ UNCHANGED << convertVars, enrichVars, textVars, nameVars,
                     gridVars, pipeVars, docxVars >>

\* test_enriching_classes_has_regex_grid ends; the next test starts.
TestHasRegexGridEnd ==
    /\ test_pc = "has_regex_grid"
    /\ test_cls = Len(get_figure_enriching_classes)
    /\ test_pc' = "overlap"
    /\ test_cls' = 0
    /\ test_i' = 0
    /\ test_j' = 1
    /\ UNCHANGED failed
    /\ UNCHANGED << convertVars, enrichVars, textVars, nameVars,
                     gridVars, pipeVars, docxVars >>

\* test_enriching_classes_regex_grid_overlap: one iteration of
\* `for j in range(i + 1, len(list_of_sets))`.
TestOverlapPair ==
    /\ test_pc = "overlap"
    /\ test_cls < Len(get_figure_enriching_classes)
    /\ test_i < Len(list_of_sets(test_class))
    /\ test_j < Len(list_of_sets(test_class))
    /\ IF list_of_sets(test_class)[test_i + 1]
              \cap list_of_sets(test_class)[test_j + 1] = {}
       THEN /\ test_j' = test_j + 1
            /\ UNCHANGED << test_pc, test_cls, test_i, failed >>
       ELSE /\ failed' = failed \cup { << "overlap", test_class >> }
            /\ test_pc' = "done"
            /\ UNCHANGED << test_cls, test_i, test_j >>
    /\ UNCHANGED << convertVars, enrichVars, textVars, nameVars,
                     gridVars, pipeVars, docxVars >>

\* The loop over j ends: the next i.
TestOverlapNextI ==
    /\ test_pc = "overlap"
    /\ test_cls < Len(get_figure_enriching_classes)
    /\ test_i < Len(list_of_sets(test_class))
    /\ test_j >= Len(list_of_sets(test_class))
    /\ test_i' = test_i + 1
    /\ test_j' = test_i + 2
    /\ UNCHANGED << test_pc, test_cls, failed >>
    /\ UNCHANGED << convertVars, enrichVars, textVars, nameVars,
                     gridVars, pipeVars, docxVars >>

\* The loop over i ends: the next class.
TestOverlapNextClass ==
    /\ test_pc = "overlap"
    /\ test_cls < Len(get_figure_enriching_classes)
    /\ test_i = Len(list_of_sets(test_class))
    /\ test_cls' = test_cls + 1
    /\ test_i' = 0
    /\ test_j' = 1
    /\ UNCHANGED << test_pc, failed >>
    /\ UNCHANGED << convertVars, enrichVars, textVars, nameVars,
                     gridVars, pipeVars, docxVars >>

\* test_enriching_classes_regex_grid_overlap ends.
TestOverlapEnd ==
    /\ test_pc = "overlap"
    /\ test_cls = Len(get_figure_enriching_classes)
    /\ test_pc' = "done"
    /\ UNCHANGED << test_cls, test_i, test_j, failed >>
    /\ UNCHANGED << convertVars, enrichVars, textVars, nameVars,
                     gridVars, pipeVars, docxVars >>

NextTest ==
    \/ TestHasRegexGrid
    \/ TestHasRegexGridEnd
    \/ TestOverlapPair
    \/ TestOverlapNextI
    \/ TestOverlapNextClass
    \/ TestOverlapEnd

SpecTest == InitTest /\ [][NextTest]_vars

(***************************************************************************)
(* str.translate(TRANSLATION_TABLE) applied to a text and to its result.   *)
(***************************************************************************)
\* The characters of the texts: the keys of the table, the characters of
\* its values, and a character outside ASCII that is no key.
TextChars ==
    DOMAIN TRANSLATION_TABLE
        \cup UNION { Range(chars(TRANSLATION_TABLE[c])) :
                       c \in DOMAIN TRANSLATION_TABLE }
        \cup { "U+00A7" }

InitText ==
    /\ text \in UNION { [1..n -> TextChars] : n \in 0..MaxText }
    /\ text_pc = "text"
    /\ once = <<>>
    /\ twice = <<>>
    /\ ConvertIdle /\ EnrichIdle /\ NameIdle /\ TestIdle
    /\ GridIdle /\ PipeIdle /\ DocxIdle

\* once = text.translate(TRANSLATION_TABLE)
TranslateOnce ==
    /\ text_pc = "text"
    /\ once' = translate_chars(text)
    /\ text_pc' = "once"
    /\ UNCHANGED << text, twice >>
    /\ UNCHANGED << convertVars, enrichVars, nameVars, testVars,
                     gridVars, pipeVars, docxVars >>

\* twice = once.translate(TRANSLATION_TABLE)
TranslateTwice ==
    /\ text_pc = "once"
    /\ twice' = translate_chars(once)
    /\ text_pc' = "twice"
    /\ UNCHANGED << text, once >>
    /\ UNCHANGED << convertVars, enrichVars, nameVars, testVars,
                     gridVars, pipeVars, docxVars >>

NextText ==
    \/ TranslateOnce
    \/ TranslateTwice

SpecText == InitText /\ [][NextText]_vars

(***************************************************************************)
(* senfd.utils: pascal_to_snake and snake_to_pascal, character by          *)
(* character.                                                              *)
(***************************************************************************)
\* The characters of the names.
NameChars == { "A", "B", "a", "b", "_" }

\* [A-Z]
IsUpper(c) == c \in { "A", "B" }

\* str.islower of a character
IsLower(c) == c \in { "a", "b" }

\* str.lower of a character
lower(c) == CASE c = "A" -> "a" [] c = "B" -> "b" [] OTHER -> c

\* str.upper of a character
upper(c) == CASE c = "a" -> "A" [] c = "b" -> "B" [] OTHER -> c

RECURSIVE sub_underscore(_, _)
\* re.sub(r"(?<!^)(?=[A-Z])", "_", name) from character i on: an underscore
\* goes before every character of [A-Z] that is not the first of the name.
sub_underscore(s, i) ==
    IF i > Len(s) THEN <<>>
    ELSE (IF i > 1 /\ IsUpper(s[i]) THEN << "_", s[i] >> ELSE << s[i] >>)
         \o sub_underscore(s, i + 1)

\* Mutant: no underscore is put between the words.
pascal_to_snake_lower(s) == [i \in DOMAIN s |-> lower(s[i])]

\* pascal_to_snake(name)
pascal_to_snake(s) ==
    LET subbed == sub_underscore(s, 1)
    IN  [i \in DOMAIN subbed |-> lower(subbed[i])]

RECURSIVE split(_, _, _)
\* name.split("_") from character i on, `word` being the characters since
\* the last underscore.
split(s, i, word) ==
    IF i > Len(s) THEN << word >>
    ELSE IF s[i] = "_" THEN << word >> \o split(s, i + 1, <<>>)
    ELSE split(s, i + 1, Append(word, s[i]))

\* word.capitalize()
capitalize(word) ==
    [i \in DOMAIN word |-> IF i = 1 THEN upper(word[i]) ELSE lower(word[i])]

RECURSIVE join(_)
\* "".join(words)
join(words) ==
    IF words = <<>> THEN <<>> ELSE Head(words) \o join(Tail(words))

\* snake_to_pascal(name)
snake_to_pascal(s) ==
    LET words == split(s, 1, <<>>)
    IN  join([i \in DOMAIN words |-> capitalize(words[i])])

InitName ==
    /\ name \in UNION { [1..n -> NameChars] : n \in 0..MaxName }
    /\ name_pc = "name"
    /\ snake = <<>>
    /\ pascal = <<>>
    /\ ConvertIdle /\ EnrichIdle /\ TextIdle /\ TestIdle
    /\ GridIdle /\ PipeIdle /\ DocxIdle

\* snake = pascal_to_snake(name)
PascalToSnake ==
    /\ name_pc = "name"
    /\ snake' = pascal_to_snake(name)
    /\ name_pc' = "snake"
    /\ UNCHANGED << name, pascal >>
    /\ UNCHANGED << convertVars, enrichVars, textVars, testVars,
                     gridVars, pipeVars, docxVars >>

\* pascal = snake_to_pascal(snake)
SnakeToPascal ==
    /\ name_pc = "snake"
    /\ pascal' = snake_to_pascal(snake)
    /\ name_pc' = "pascal"
    /\ UNCHANGED << name, snake >>
    /\ UNCHANGED << convertVars, enrichVars, textVars, testVars,
                     gridVars, pipeVars, docxVars >>

NextName ==
    \/ PascalToSnake
    \/ SnakeToPascal

SpecName == InitName /\ [][NextName]_vars

(***************************************************************************)
(* Properties of the aggregated document.                                  *)
(***************************************************************************)
\* The figure_nr of entry e of bucket b.
EntryNr(b, e) ==
    IF b \in VariantBuckets THEN e.figure.figure_nr ELSE e.figure_nr

\* The places (bucket, position) of the document.
AllPlaces == UNION { { << b, k >> : k \in DOMAIN document[b] } : b \in Buckets }

\* The places that hold figure nr.
PlacesOf(nr) ==
    { p \in AllPlaces : EntryNr(p[1], document[p[1]][p[2]]) = nr }

\* The enriched figures of the document.
AllEnriched == UNION { Range(document[b]) : b \in VariantBuckets }

\* The figure that diagnostic k is about: its figure_nr, and for a kind
\* without figure_nr the figure whose enrichment produced it.
DiagnosticFigure(k) ==
    IF errors[k].figure_nr # -1 THEN errors[k].figure_nr ELSE origin[k]

\* Some variant of the catalog matches the normalized description of f.
SomeVariantMatches(f) ==
    \E cls \in Range(Declared) :
        match_description(cls, translate(f.description)).matched

\* C1: every figure the converter has processed is in exactly one place of
\* the document: one variant bucket, `nontabular` or `uncategorized`.
C1_EveryFigureInExactlyOnePlace ==
    \A i \in 1..idx : Cardinality(PlacesOf(i)) = 1

\* C1, what the code keeps: no figure is in two places.
C1_NoFigureInTwoPlaces ==
    \A i \in 1..idx : Cardinality(PlacesOf(i)) <= 1

\* C2: a figure that matches a variant and whose extraction hits a blocking
\* error is in the bucket of that variant with an empty Grid, and the
\* blocking diagnostic is in the diagnostic list.
C2_BlockedFigureKeptWithEmptyGrid ==
    \A i \in 1..idx :
        LET f == figures[i]
        IN  (/\ ~f.table.is_none
             /\ SomeVariantMatches(f)
             /\ check_table_data(f).error # <<>>)
            => /\ \E e \in Range(document[into_document_key(
                                             Head(Matching(f)))]) :
                     e.figure = f /\ e.grid = EmptyGrid
               /\ \E k \in DOMAIN errors :
                     errors[k] = check_table_data(f).error[1]

\* C2: a figure with a matching variant and a table of fewer than 2 rows has
\* been processed.
C2_BlockedFigureProcessed ==
    \E i \in 1..idx :
        /\ ~figures[i].table.is_none
        /\ SomeVariantMatches(figures[i])
        /\ Len(figures[i].table.rows) < 2

\* The variants that match the normalized description of f.
MatchingVariants(f) ==
    { cls \in Range(Declared) :
        match_description(cls, translate(f.description)).matched }

\* The position of x in the sequence s.
Position(s, x) == CHOOSE i \in DOMAIN s : s[i] = x

C4_RowsAsLongAsFields ==
    \A e \in AllEnriched :
        \A r \in DOMAIN e.grid.values :
            Len(e.grid.values[r]) = Len(e.grid.fields)

\* No caption capture of the catalog is named like a field of Figure.
NoCaptureNamedLikeFigureField ==
    \A t \in DescriptionMatches : Range(Keys(t[3])) \cap FigureFields = {}

\* C5: with the shipped catalog, no ImplementationError is appended to the
\* diagnostic list of a run.
C5_NoImplementationError ==
    NoCaptureNamedLikeFigureField
        => \A k \in DOMAIN errors : errors[k].kind # "ImplementationError"

\* C6: `fields` of a Grid is empty exactly when `values` is empty.
C6_FieldsEmptyIffValuesEmpty ==
    \A e \in AllEnriched : (e.grid.fields = <<>>) <=> (e.grid.values = <<>>)

\* C7: a figure without a table is in `nontabular` and nowhere else, is not
\* matched against the caption patterns, is not given to enrich, and no
\* diagnostic is about it.
C7_NontabularNeverClassified ==
    \A i \in 1..idx :
        figures[i].table.is_none
            => /\ Cardinality(PlacesOf(i)) = 1
               /\ \E k \in DOMAIN document["nontabular"] :
                     document["nontabular"][k] = figures[i]
               /\ i \notin Range(classified)
               /\ \A e \in Range(extracted) : e.figure_nr # i
               /\ \A k \in DOMAIN errors : DiagnosticFigure(k) # i

\* C7: the document is converted and a figure of it has no table but a
\* description that a variant matches.
C7_NontabularWithMatchingCaption ==
    /\ returned
    /\ \E i \in 1..idx :
          figures[i].table.is_none /\ SomeVariantMatches(figures[i])

\* C8: a figure with a table whose normalized description matches no variant
\* is in `uncategorized` and nowhere else, no diagnostic is about it, and it
\* is not given to enrich.
C8_UnmatchedIsUncategorized ==
    \A i \in 1..idx :
        (~figures[i].table.is_none /\ ~SomeVariantMatches(figures[i]))
            => /\ Cardinality(PlacesOf(i)) = 1
               /\ \E k \in DOMAIN document["uncategorized"] :
                     document["uncategorized"][k] = figures[i]
               /\ \A e \in Range(extracted) : e.figure_nr # i
               /\ \A k \in DOMAIN errors : DiagnosticFigure(k) # i

\* C8: the document is converted and a figure of it has a table with rows to
\* extract but a description that no variant matches.
C8_UnmatchedTabularFigure ==
    /\ returned
    /\ \E i \in 1..idx :
          /\ ~figures[i].table.is_none
          /\ Len(figures[i].table.rows) >= 2
          /\ ~SomeVariantMatches(figures[i])

\* C9: in every bucket the figures are in the order of the input list.
C9_BucketsInInputOrder ==
    \A b \in Buckets :
        \A j, k \in DOMAIN document[b] :
            j < k => EntryNr(b, document[b][j]) < EntryNr(b, document[b][k])

\* C9: two figures of the input are in the same variant bucket.
C9_TwoFiguresInOneBucket ==
    /\ returned
    /\ \E b \in VariantBuckets : Len(document[b]) >= 2

\* The diagnostics of an earlier figure precede those of a later figure.
DiagnosticsInFigureOrder ==
    \A j, k \in DOMAIN errors :
        j < k => DiagnosticFigure(j) <= DiagnosticFigure(k)

\* C10: every step leaves the diagnostic list a prefix of the new list, and
\* the list is in the order of the figures.
C10_DiagnosticsAppendOnlyInOrder ==
    [][IsPrefix(errors, errors') /\ DiagnosticsInFigureOrder']_vars

\* C10: the list holds diagnostics of two figures.
C10_DiagnosticsOfTwoFigures ==
    /\ returned
    /\ \E j, k \in DOMAIN errors : DiagnosticFigure(j) # DiagnosticFigure(k)


\* One iteration of the loop of convert for figure f alone: the bucket the
\* figure is appended to (None: no bucket), the entry, and the diagnostics.
ConvertAlone(f) ==
    IF ~HasTable(f)
    THEN [bucket |-> "nontabular", entry |-> f, errors |-> <<>>]
    ELSE IF Matching(f) = <<>>
    THEN [bucket |-> "uncategorized", entry |-> f, errors |-> <<>>]
    ELSE IF Enriched(f).enriched.is_none
    THEN [bucket |-> None, entry |-> f, errors |-> Enriched(f).errors]
    ELSE [bucket |-> into_document_key(Head(Matching(f))),
          entry |-> Enriched(f).enriched,
          errors |-> Enriched(f).errors]

\* The diagnostics that the processing of figure nr produced, in order.
ErrorsOf(nr) ==
    LET ks == SelectSeq([k \in DOMAIN errors |-> k],
                        LAMBDA k : origin[k] = nr)
    IN  [j \in DOMAIN ks |-> errors[ks[j]]]

\* C11: in the document and the diagnostics that convert returns, the
\* outcome of every figure (the bucket it is in, its entry with the Grid,
\* the diagnostics attributed to it) is the outcome of that figure converted
\* alone, whatever the figures before and after it are and however they
\* fare.
C11_OutcomeIndependentOfOtherFigures ==
    returned =>
        \A i \in 1..Len(figures) :
            LET alone == ConvertAlone(figures[i])
            IN  /\ { << p[1], document[p[1]][p[2]] >> : p \in PlacesOf(i) }
                     = IF alone.bucket = None THEN {}
                       ELSE { << alone.bucket, alone.entry >> }
                /\ ErrorsOf(i) = alone.errors

\* C11: a figure whose extraction is blocked is followed by a figure that
\* is extracted with values.
C11_BlockedFigureBeforeExtractedFigure ==
    /\ returned
    /\ Len(figures) = 2
    /\ ConvertAlone(figures[1]).bucket = None
    /\ ConvertAlone(figures[1]).errors # <<>>
    /\ \E e \in AllEnriched : e.figure = figures[2] /\ e.grid.values # <<>>


\* C12: translating a translated text changes nothing, and no character
\* that a substitution produces (the three characters of the replacement
\* of the ellipsis included) is a key of the table.
C12_TranslateIdempotent ==
    /\ text_pc = "twice" => twice = once
    /\ text_pc \in { "once", "twice" } =>
          Range(once) \cap DOMAIN TRANSLATION_TABLE = {}

\* C12: a text with the ellipsis and another key has been translated twice.
C12_EllipsisTranslatedTwice ==
    /\ text_pc = "twice"
    /\ "U+2026" \in Range(text)
    /\ Len(text) = 2
    /\ Len(once) = 4
    /\ once # text

\* A PascalCase name: one or more words, each an uppercase letter followed
\* by lowercase letters.
IsPascalCase(s) ==
    /\ s # <<>>
    /\ IsUpper(s[1])
    /\ \A i \in DOMAIN s : IsUpper(s[i]) \/ IsLower(s[i])

\* C19: for a PascalCase name, snake_to_pascal(pascal_to_snake(name)) is
\* the name.
C19_CaseConversionRoundTrip ==
    (name_pc = "pascal" /\ IsPascalCase(name)) => pascal = name

\* C19: a name of two words, one of them a single letter, has been
\* converted to snake case and back.
C19_TwoWordNameConverted ==
    /\ name_pc = "pascal"
    /\ IsPascalCase(name)
    /\ Len(snake) = Len(name) + 1
    /\ \E i \in DOMAIN name : i > 1 /\ IsUpper(name[i])
    /\ \E i \in DOMAIN name : IsLower(name[i])


\* enrich has returned for the figure "Opcodes for Admin Commands" whose
\* table is a caption row, the header row hdr and the data row dat.
AdminOpcodeCall(hdr, dat) ==
    /\ enrich_pc = "done"
    /\ enrich_args.figure.description = dAdminOpcodes
    /\ Len(enrich_rows) = 3
    /\ enrich_rows[2] = hdr
    /\ enrich_rows[3] = dat

\* The figure is extracted as the admin opcode variant: the header row is
\* accepted, the fields hold the keys of the bit string, the opcode and the
\* command name, and the values hold one row.
ExtractedAsAdminOpcode ==
    /\ enrich_args.cls = "CommandAdminOpcodeFigure"
    /\ ~enrich_ret.enriched.is_none
    /\ enrich_ret.enriched.grid.headers # <<>>
    /\ { "bitstr", "opcode", "command_name" }
           \subseteq Range(enrich_ret.enriched.grid.fields)
    /\ Len(enrich_ret.enriched.grid.values) = 1

\* C13: the figure "Opcodes for Admin Commands" with the five-cell header
\* row [Function, Data Transfer, Combined Opcode, Command, Reference] and
\* the five-cell data row [0000 00b, 00b, 02h, Get Log Page, (section) 5.1]
\* is classified as the admin opcode variant, its header row is accepted,
\* the fields include the bit string, opcode and command name keys, and one
\* row is appended to the values.
C13_FiveCellRowsExtracted ==
    AdminOpcodeCall(Header5, Data5) => ExtractedAsAdminOpcode

\* C13, what the code does: the same holds of the six-cell rows that have
\* the column "Namespace Identifier Used" (cell "Yes") in fourth place, and
\* the headers are the six header texts.
C13_SixCellRowsExtracted ==
    AdminOpcodeCall(Header6, Data6) =>
        /\ ExtractedAsAdminOpcode
        /\ enrich_ret.enriched.grid.headers =
               [i \in 1..6 |-> str(Header6[i])]

\* C13: enrich has returned for the table with the six-cell rows.
C13_SixCellTableEnriched ==
    /\ AdminOpcodeCall(Header6, Data6)
    /\ Len(enrich_ret.enriched.grid.fields) = 6

\* Some cell of the row fails the value pattern of its column.
CellFails(cls, row) ==
    \E i \in 1..Min(Len(row), Len(REGEX_GRID(cls))) :
        ~match_value(REGEX_GRID(cls)[i], value_text(row[i])).matched

\* C15: the iteration for a row after the accepted header row in which a
\* cell fails its value pattern leaves headers, fields and values as they
\* are (so the rows before it stay and the rows after it are treated as if
\* it were not there) and appends a diagnostic with the row's index.
C15_FailingRowDiscarded ==
    [][(/\ enrich_pc = "rows"
        /\ row_idx < Len(enrich_rows)
        /\ loop_st.header_names # <<>>
        /\ CellFails(enrich_args.cls, enrich_row))
       => /\ loop_st'.values = loop_st.values
          /\ loop_st'.fields = loop_st.fields
          /\ loop_st'.header_names = loop_st.header_names
          /\ \E k \in DOMAIN loop_st'.errors :
                /\ k > Len(loop_st.errors)
                /\ loop_st'.errors[k].row_idx = row_idx]_vars

\* C15: a data row whose third cell is empty, between two rows that are in
\* the values, has left a diagnostic for its third cell.
C15_FailingRowBetweenValidRows ==
    /\ enrich_pc = "done"
    /\ Len(enrich_rows) = 5
    /\ SubSeq(enrich_rows, 2, 5) = << Header6, Data6, Data6NoOpcode, Data6 >>
    /\ Len(enrich_ret.enriched.grid.values) = 2
    /\ \E k \in DOMAIN enrich_ret.errors :
          /\ enrich_ret.errors[k].kind = "FigureTableRowCellError"
          /\ enrich_ret.errors[k].row_idx = 3
          /\ enrich_ret.errors[k].cell_idx = 2

\* C20: accepted headers are as many as the variant has columns: a row of
\* fewer cells is not accepted as the header row.
C20_HeadersOnePerColumn ==
    loop_st.header_names # <<>> =>
        Len(loop_st.header_names) = Len(REGEX_GRID(enrich_args.cls))

\* C20: a header row of as many cells as the variant has columns has been
\* accepted.
C20_FullHeaderRowAccepted ==
    /\ enrich_pc = "done"
    /\ loop_st.header_names # <<>>
    /\ Len(loop_st.header_names) = Len(REGEX_GRID(enrich_args.cls))


\* A table of at least 2 rows whose rows do not all have the same number
\* of cells.
IsIrregular(f) ==
    /\ ~f.table.is_none
    /\ Len(f.table.rows) >= 2
    /\ \E r1, r2 \in Range(f.table.rows) : Len(r1) # Len(r2)

\* Every cell of the row (as far as the variant has columns) matches the
\* header pattern of its column.
HeaderCellsMatch(cls, row) ==
    /\ row # <<>>
    /\ \A i \in 1..Min(Len(row), Len(REGEX_GRID(cls))) :
          match_header(REGEX_GRID(cls)[i], header_text(row[i]))
              \notin { None, "" }

\* The captures of the cells of a row, merged.
RowRecord(cls, row) ==
    match_cells(REGEX_GRID(cls), 0, row, 0, 1,
                [combined |-> <<>>, value_errors |-> <<>>]).combined

\* The rows of the table are header- and value-matched into the grid: the
\* headers are set when a row matches the header patterns, and a row after
\* the first such row whose cells all match the value patterns, with keys
\* among the fields, is in the values.
RowsMatchedInto(cls, rows, grid) ==
    \A h \in 2..Len(rows) :
        (/\ HeaderCellsMatch(cls, rows[h])
         /\ \A g \in 2..(h - 1) : ~HeaderCellsMatch(cls, rows[g]))
        => /\ grid.headers # <<>>
           /\ \A r \in (h + 1)..Len(rows) :
                 (/\ ~CellFails(cls, rows[r])
                  /\ Range(Keys(RowRecord(cls, rows[r])))
                         \subseteq Range(grid.fields))
                 => Values(RowRecord(cls, rows[r])) \in Range(grid.values)

C16_CaptionCapturesCarried ==
    \A e \in AllEnriched :
        LET match == match_description(e.cls, translate(e.figure.description))
        IN  \A k \in DOMAIN match.groupdict :
                \E j \in DOMAIN e.captures :
                    e.captures[j] = match.groupdict[k]

\* C16: an enriched figure carries a capture of its caption pattern.
C16_SomeCaptureCarried ==
    \E e \in AllEnriched : e.captures # <<>>


\* C17: for every variant, the capture keys of the value patterns of two
\* different columns are disjoint, and the overlap test fails for no class.
C17_ColumnCaptureKeysDisjoint ==
    /\ \A cls \in Range(get_figure_enriching_classes) :
          \A i, j \in DOMAIN REGEX_GRID(cls) :
              i # j => list_of_sets(cls)[i] \cap list_of_sets(cls)[j] = {}
    /\ \A t \in failed : t[1] # "overlap"

\* C17: the test compares the last two of the seven columns of
\* CnsValueFigure, after the pairs before them.
C17_LastPairOfSevenColumns ==
    /\ test_pc = "overlap"
    /\ test_class = "CnsValueFigure"
    /\ test_i = 5
    /\ test_j = 6
    /\ failed = {}

\* C18: every class that get_figure_enriching_classes returns has the
\* attribute REGEX_GRID, a list of at least one (header pattern, value
\* pattern) pair, and the test of the attribute fails for no class.
C18_EveryVariantHasRegexGrid ==
    /\ \A cls \in Range(get_figure_enriching_classes) :
          /\ hasattr(cls, "REGEX_GRID")
          /\ Len(REGEX_GRID(cls)) >= 1
          /\ \A k \in DOMAIN REGEX_GRID(cls) :
                Len(regex_pair(REGEX_GRID(cls)[k])) = 2
    /\ \A t \in failed : t[1] # "has_regex_grid"

\* C18: the test of the attribute has gone over all the classes.
C18_AllClassesTested ==
    /\ test_pc = "has_regex_grid"
    /\ test_cls = Len(get_figure_enriching_classes)
    /\ test_cls = Len(Declared)
    /\ failed = {}

\* Some cell of the row (as far as the variant has columns) fails the header
\* pattern of its column: no match, or an empty first group.
HeaderCellFails(cls, row) ==
    \E i \in 1..Min(Len(row), Len(REGEX_GRID(cls))) :
        match_header(REGEX_GRID(cls)[i], header_text(row[i])) \in { None, "" }

\* The diagnostics that a step of enrich appends.
NewErrors == SubSeq(loop_st'.errors, Len(loop_st.errors) + 1,
                    Len(loop_st'.errors))

EnrichRanAllRows == enrich_pc = "done" /\ ~enrich_ret.enriched.is_none

\* The grid of the figure that enrich returns.
enrich_grid == enrich_ret.enriched.grid

\* The capture keys of a row.
RowKeys(cls, row) == Range(Keys(RowRecord(cls, row)))

\* Row index k has a diagnostic with the message.
RowHasError(k, message) ==
    \E e \in DOMAIN enrich_ret.errors :
        /\ enrich_ret.errors[e].row_idx = k
        /\ enrich_ret.errors[e].message = message

\* C22: a fully matching row after the first row of the values whose capture
\* key set is not the set of the fields (more keys or fewer) is not in the
\* values and has the diagnostic of diverging fields; every entry of the
\* values has the shape of the fields.
C22_DivergingRowsDiscarded ==
    EnrichRanAllRows =>
        /\ \A k \in 1..(Len(enrich_rows) - 1) :
              (/\ value_rows # <<>>
               /\ k > value_rows[1]
               /\ ~CellFails(enrich_args.cls, enrich_rows[k + 1])
               /\ RowKeys(enrich_args.cls, enrich_rows[k + 1])
                      # Range(enrich_grid.fields))
              => /\ k \notin Range(value_rows)
                 /\ RowHasError(k, "Unexpected fields")
        /\ \A j \in DOMAIN enrich_grid.values :
              Len(enrich_grid.values[j]) = Len(enrich_grid.fields)

\* C22: a fully matching row with a key that is no field has been discarded
\* with the diagnostic of diverging fields, after a row that is in the
\* values.
C22_RowWithExtraKeyDiscarded ==
    /\ EnrichRanAllRows
    /\ value_rows # <<>>
    /\ \E k \in 1..(Len(enrich_rows) - 1) :
          /\ k > value_rows[1]
          /\ k \notin Range(value_rows)
          /\ ~CellFails(enrich_args.cls, enrich_rows[k + 1])
          /\ RowKeys(enrich_args.cls, enrich_rows[k + 1])
                 \ Range(enrich_grid.fields) # {}
          /\ RowHasError(k, "Unexpected fields")

\* The kinds of the figure-level post-condition diagnostics.
PostConditionKinds == { "FigureNoGridHeaders", "FigureNoGridValues" }

\* The number of diagnostics of a kind that enrich returns.
ReturnedOfKind(kind) ==
    Cardinality({ e \in DOMAIN enrich_ret.errors :
                    enrich_ret.errors[e].kind = kind })

\* C23: after a pass over all rows, empty headers give a
\* FigureNoGridHeaders, empty fields or empty values give a
\* FigureNoGridValues, headers, fields and values that are all non-empty
\* give no post-condition diagnostic, and the post-condition diagnostics
\* come after every other diagnostic of the figure.
C23_PostConditionsReported ==
    EnrichRanAllRows =>
        /\ enrich_grid.headers = <<>>
              => ReturnedOfKind("FigureNoGridHeaders") >= 1
        /\ (enrich_grid.fields = <<>> \/ enrich_grid.values = <<>>)
              => ReturnedOfKind("FigureNoGridValues") >= 1
        /\ (/\ enrich_grid.headers # <<>>
            /\ enrich_grid.fields # <<>>
            /\ enrich_grid.values # <<>>)
              => /\ ReturnedOfKind("FigureNoGridHeaders") = 0
                 /\ ReturnedOfKind("FigureNoGridValues") = 0
        /\ \A k, l \in DOMAIN enrich_ret.errors :
              (k < l /\ enrich_ret.errors[k].kind \in PostConditionKinds)
              => enrich_ret.errors[l].kind \in PostConditionKinds

\* C23: the header row was accepted, a value row failed, and the missing
\* values are reported after the diagnostic of the row.
C23_NoValuesReportedAfterRowError ==
    /\ EnrichRanAllRows
    /\ enrich_grid.headers # <<>>
    /\ enrich_grid.values = <<>>
    /\ ReturnedOfKind("FigureTableRowCellError") >= 1
    /\ enrich_ret.errors[Len(enrich_ret.errors)].kind = "FigureNoGridValues"

\* The number of diagnostics of a kind that carry figure_nr nr.
FigureErrorsOfKind(nr, kind) ==
    Cardinality({ k \in DOMAIN errors :
                    errors[k].figure_nr = nr /\ errors[k].kind = kind })

\* Figure nr is in the bucket of a variant.
InVariantBucket(nr) == \E p \in PlacesOf(nr) : p[1] \in VariantBuckets

\* C24: when convert returns, no figure has more than one
\* FigureNoGridHeaders or more than one FigureNoGridValues, and a figure
\* with such a diagnostic is in the bucket of its variant.
C24_PostConditionsOncePerFigure ==
    returned =>
        \A i \in 1..Len(figures) :
            /\ FigureErrorsOfKind(i, "FigureNoGridHeaders") <= 1
            /\ FigureErrorsOfKind(i, "FigureNoGridValues") <= 1
            /\ (\E kind \in PostConditionKinds :
                   FigureErrorsOfKind(i, kind) >= 1)
               => InVariantBucket(i)

\* C24: a figure with one post-condition diagnostic is in the bucket of its
\* variant.
C24_FigureWithOneDiagnosticInBucket ==
    /\ returned
    /\ \E i \in 1..Len(figures) :
          /\ FigureErrorsOfKind(i, "FigureNoGridHeaders")
                 + FigureErrorsOfKind(i, "FigureNoGridValues") = 1
          /\ InVariantBucket(i)

\* The figure has a table of fewer than 2 rows and matches a variant.
MissingRows(f) ==
    /\ HasTable(f)
    /\ Len(f.table.rows) < 2
    /\ Matching(f) # <<>>

\* The number of the diagnostics of the processing of figure nr that are of
\* one of the kinds.
ErrorsOfKinds(nr, kinds) ==
    Cardinality({ k \in DOMAIN errors :
                    origin[k] = nr /\ errors[k].kind \in kinds })

\* C25: when convert returns, a figure that matches a variant and whose
\* table has fewer than 2 rows has exactly one FigureTableMissingRowsError
\* and no IrregularTableError, row, cell or post-condition diagnostic, and
\* every later figure with a table has been classified and, if it matches a
\* variant, given to enrich.
C25_MissingRowsBlocksOnlyItsFigure ==
    returned =>
        \A i \in 1..Len(figures) :
            MissingRows(figures[i]) =>
                /\ ErrorsOfKinds(i, { "FigureTableMissingRowsError" }) = 1
                /\ ErrorsOfKinds(i, { "IrregularTableError",
                                      "FigureTableRowError",
                                      "FigureTableRowCellError",
                                      "FigureNoGridHeaders",
                                      "FigureNoGridValues" }) = 0
                /\ \A j \in (i + 1)..Len(figures) :
                      /\ HasTable(figures[j]) => j \in Range(classified)
                      /\ (HasTable(figures[j]) /\ Matching(figures[j]) # <<>>)
                            => \E x \in Range(extracted) : x.figure_nr = j

\* C25: the first figure has a table of the caption row alone and is
\* blocked, the second is extracted into the bucket of its variant.
C25_FigureAfterMissingRowsExtracted ==
    /\ returned
    /\ Len(figures) = 2
    /\ MissingRows(figures[1])
    /\ Len(figures[1].table.rows) = 1
    /\ ErrorsOfKinds(1, { "FigureTableMissingRowsError" }) = 1
    /\ InVariantBucket(2)
    /\ \E x \in Range(extracted) : x.figure_nr = 2

\* The row indices that a diagnostic of the call carries.
RowsWithDiagnostic ==
    { k \in 1..(Len(enrich_rows) - 1) :
        \E e \in DOMAIN enrich_ret.errors : enrich_ret.errors[e].row_idx = k }

\* C27: after a pass over all rows, every row after the caption row is the
\* accepted header row, is in the values, or has a diagnostic with its row
\* index, so that the number of these rows is the sum of the three counts.
C27_EveryRowAccountedFor ==
    EnrichRanAllRows =>
        /\ \A k \in 1..(Len(enrich_rows) - 1) :
              \/ k = header_idx
              \/ k \in Range(value_rows)
              \/ k \in RowsWithDiagnostic
        /\ Len(enrich_rows) - 1 =
              (IF enrich_grid.headers # <<>> THEN 1 ELSE 0)
                  + Len(enrich_grid.values)
                  + Cardinality(RowsWithDiagnostic)

\* C27: a table with a row that failed header matching, the accepted header
\* row, a row in the values and a row with a failing cell: four rows, each
\* accounted for.
C27_FourRowsAccountedFor ==
    /\ EnrichRanAllRows
    /\ Len(enrich_rows) = 5
    /\ header_idx = 2
    /\ value_rows = << 3 >>
    /\ RowsWithDiagnostic = { 1, 4 }

\* C28: while the headers are empty the fields and the values are empty;
\* the values are the captures of rows that come after the accepted header
\* row, one entry per row, in the order of the rows of the table; the grid
\* that enrich returns holds these headers, fields and values.
C28_ValuesFollowHeaderInOrder ==
    /\ loop_st.header_names = <<>>
          => (loop_st.fields = <<>> /\ loop_st.values = <<>>)
    /\ Len(value_rows) = Len(loop_st.values)
    /\ \A j \in DOMAIN value_rows :
          /\ header_idx >= 1
          /\ value_rows[j] > header_idx
          /\ value_rows[j] <= Len(enrich_rows) - 1
          /\ j > 1 => value_rows[j] > value_rows[j - 1]
          /\ loop_st.values[j] =
                 Values(RowRecord(enrich_args.cls,
                                  enrich_rows[value_rows[j] + 1]))
    /\ EnrichRanAllRows
          => /\ enrich_grid.headers = loop_st.header_names
             /\ enrich_grid.fields = loop_st.fields
             /\ enrich_grid.values = loop_st.values

\* C28: the grid holds the captures of two rows that differ, the rows after
\* a row that failed header matching and the accepted header row.
C28_TwoDifferentRowsInValues ==
    /\ EnrichRanAllRows
    /\ header_idx = 2
    /\ value_rows = << 3, 4 >>
    /\ enrich_grid.values[1] # enrich_grid.values[2]

(***************************************************************************)
(* Grid.from_enriched_figure (tables.py) as a state machine: one step per  *)
(* row of the table, the caption row included.                             *)
(***************************************************************************)
\* senfd.errors.TableRowError(table_nr, table_idx, message)
TableRowError(table_nr_idx, message) ==
    Error("TableRowError", -1, table_nr_idx, -1, message)

\* The figures given to Grid.from_enriched_figure: the enriched figures of
\* the calls of enrich, a figure without table, and a figure of the class
\* EnrichedFigure, which has no REGEX_GRID.
GridFigures ==
    UNION { { [cls |-> c.cls, figure |-> c.figure] : c \in EnrichCalls(d) } :
              d \in EnrichDescriptions }
        \cup { [cls |-> "GenericCommandStatusValueFigure",
                figure |-> [figure_nr |-> 1, description |-> dGenericStatus,
                            table |-> NoTable]],
               [cls |-> "EnrichedFigure",
                figure |-> [figure_nr |-> 1, description |-> dGenericStatus,
                            table |-> Table(<< << tFigure, tFigure >>,
                                               << tValue, tDescription >> >>)]] }

InitGrid ==
    /\ grid_figure \in GridFigures
    /\ grid_pc = "check"
    /\ grid_idx = 0
    /\ grid_st = LoopInit
    /\ grid_ret = <<>>
    /\ grid_header = -1
    /\ grid_kept = <<>>
    /\ ConvertIdle /\ EnrichIdle /\ TextIdle /\ NameIdle /\ TestIdle
    /\ PipeIdle /\ DocxIdle

\* figure.table.rows
grid_rows == grid_figure.figure.table.rows

\* The row of the next iteration of enumerate(figure.table.rows).
grid_row == grid_rows[grid_idx + 1]

\* The three checks that return (None, [error]).
grid_blocking(cls, fig) ==
    IF fig.table.is_none
    THEN << Error("FigureTableMissingError", fig.figure_nr, -1, -1,
                  "No table") >>
    ELSE IF Len(fig.table.rows) < 2
    THEN << Error("FigureTableMissingRowsError", fig.figure_nr, -1, -1,
                  "Number of rows < 2") >>
    ELSE IF ~hasattr(cls, "REGEX_GRID")
    THEN << Error("FigureRegexGridMissingError", fig.figure_nr, -1, -1,
                  "Missing REGEX_GRID") >>
    ELSE <<>>

\* The branch `if not header_names` of Grid.from_enriched_figure.
grid_header_row(cls, st, row, at) ==
    LET regex_hdr == REGEX_GRID(cls)
        n == Min(Len(row), Len(regex_hdr))
        header_matches ==
            [i \in 1..n |-> match_header(regex_hdr[i], header_text(row[i]))]
    IN  IF \A i \in 1..n : header_matches[i] # None /\ header_matches[i] # ""
        THEN [st EXCEPT !.header_names = header_matches]
        ELSE [st EXCEPT !.errors =
                 Append(@, TableRowError(at,
                                         "Did not match REGEX_GRID/Headers"))]

RECURSIVE grid_combined(_, _)
\* {k: v for d in value_matches if d for k, v in d.items()}
grid_combined(value_matches, i) ==
    IF i = 0 THEN <<>>
    ELSE DictUpdate(grid_combined(value_matches, i - 1),
                    value_matches[i].groupdict)

\* The rest of the loop body of Grid.from_enriched_figure: the cell texts
\* are stripped but not translated, a match without named group counts as
\* no match, and the fields are compared by `set(cur_fields) | set(fields)`.
grid_value_row(cls, st, row, at) ==
    LET regex_val == REGEX_GRID(cls)
        n == Min(Len(row), Len(regex_val))
        value_matches ==
            [i \in 1..n |-> match_value(regex_val[i], str(row[i]))]
        combined == grid_combined(value_matches, n)
        cur_fields == Keys(combined)
    IN  IF \E i \in 1..n : \/ ~value_matches[i].matched
                           \/ value_matches[i].groupdict = <<>>
        THEN [st EXCEPT !.errors =
                 Append(@, TableRowError(at,
                                         "Did not match REGEX_GRID/Values"))]
        ELSE IF st.fields = <<>>
        THEN [st EXCEPT !.fields = cur_fields,
                        !.values = Append(@, Values(combined))]
        ELSE IF Range(cur_fields) \cup Range(st.fields) # {}
        THEN [st EXCEPT !.errors =
                 Append(@, TableRowError(at, "Unexpected fields"))]
        ELSE [st EXCEPT !.values = Append(@, Values(combined))]

\* The checks on the finished grid.
grid_post(figure_nr, st) ==
    (IF st.header_names = <<>>
     THEN << Error("FigureNoGridHeaders", figure_nr, -1, -1,
                   "Grid is missing headers") >>
     ELSE <<>>)
    \o (IF st.values = <<>>
        THEN << Error("FigureNoGridValues", figure_nr, -1, -1,
                      "Grid is missing values") >>
        ELSE <<>>)

\* No table, fewer than 2 rows or no REGEX_GRID: return (None, [error]).
GridCheckBlocked ==
    /\ grid_pc = "check"
    /\ grid_blocking(grid_figure.cls, grid_figure.figure) # <<>>
    /\ grid_ret' = [grid |-> [is_none |-> TRUE],
                    errors |-> grid_blocking(grid_figure.cls,
                                             grid_figure.figure)]
    /\ grid_pc' = "done"
    /\ UNCHANGED << grid_figure, grid_idx, grid_st, grid_header, grid_kept >>
    /\ UNCHANGED << convertVars, enrichVars, textVars, nameVars, testVars,
                    pipeVars, docxVars >>

\* The checks pass: rows of varying lengths add an IrregularTableError, and
\* the loop over the rows starts.
GridCheck ==
    /\ grid_pc = "check"
    /\ grid_blocking(grid_figure.cls, grid_figure.figure) = <<>>
    /\ grid_st' =
          [LoopInit EXCEPT
              !.errors =
                  IF Cardinality({ Len(row) : row \in Range(grid_rows) }) # 1
                  THEN << Error("IrregularTableError",
                                grid_figure.figure.figure_nr, -1, -1,
                                "Varying row lengths") >>
                  ELSE <<>>]
    /\ grid_pc' = "rows"
    /\ grid_idx' = 0
    /\ UNCHANGED << grid_figure, grid_ret, grid_header, grid_kept >>
    /\ UNCHANGED << convertVars, enrichVars, textVars, nameVars, testVars,
                    pipeVars, docxVars >>

\* An iteration with `not header_names`.
GridHeaderRow ==
    /\ grid_pc = "rows"
    /\ grid_idx < Len(grid_rows)
    /\ grid_st.header_names = <<>>
    /\ grid_st' = grid_header_row(grid_figure.cls, grid_st, grid_row,
                                  grid_idx)
    /\ grid_header' = IF grid_st'.header_names # <<>> THEN grid_idx ELSE -1
    /\ grid_idx' = grid_idx + 1
    /\ UNCHANGED << grid_pc, grid_figure, grid_ret, grid_kept >>
    /\ UNCHANGED << convertVars, enrichVars, textVars, nameVars, testVars,
                    pipeVars, docxVars >>

\* An iteration after the header row.
GridValueRow ==
    /\ grid_pc = "rows"
    /\ grid_idx < Len(grid_rows)
    /\ grid_st.header_names # <<>>
    /\ grid_st' = grid_value_row(grid_figure.cls, grid_st, grid_row,
                                 grid_idx)
    /\ grid_kept' = IF Len(grid_st'.values) > Len(grid_st.values)
                    THEN Append(grid_kept, grid_idx)
                    ELSE grid_kept
    /\ grid_idx' = grid_idx + 1
    /\ UNCHANGED << grid_pc, grid_figure, grid_ret, grid_header >>
    /\ UNCHANGED << convertVars, enrichVars, textVars, nameVars, testVars,
                    pipeVars, docxVars >>

\* After the last row: the Grid is built and checked.
GridReturn ==
    /\ grid_pc = "rows"
    /\ grid_idx = Len(grid_rows)
    /\ grid_ret' =
          [grid |-> [is_none |-> FALSE,
                     ncells |-> CHOOSE n \in { Len(row) :
                                                  row \in Range(grid_rows) } :
                                    \A row \in Range(grid_rows) :
                                        Len(row) <= n,
                     headers |-> grid_st.header_names,
                     fields |-> grid_st.fields,
                     values |-> grid_st.values],
           errors |-> grid_st.errors
                      \o grid_post(grid_figure.figure.figure_nr, grid_st)]
    /\ grid_pc' = "done"
    /\ UNCHANGED << grid_figure, grid_idx, grid_st, grid_header, grid_kept >>
    /\ UNCHANGED << convertVars, enrichVars, textVars, nameVars, testVars,
                    pipeVars, docxVars >>

NextGrid ==
    \/ GridCheckBlocked
    \/ GridCheck
    \/ GridHeaderRow
    \/ GridValueRow
    \/ GridReturn

SpecGrid == InitGrid /\ [][NextGrid]_vars

\* Every cell of the row (as far as the variant has columns) matches the
\* value pattern of its column, as Grid.from_enriched_figure matches.
GridCellsMatch(cls, row) ==
    \A i \in 1..Min(Len(row), Len(REGEX_GRID(cls))) :
        LET m == match_value(REGEX_GRID(cls)[i], str(row[i]))
        IN  m.matched /\ m.groupdict # <<>>

\* The capture keys of a row, as Grid.from_enriched_figure merges them.
GridRowKeys(cls, row) ==
    UNION { Range(Keys(match_value(REGEX_GRID(cls)[i],
                                   str(row[i])).groupdict)) :
              i \in 1..Min(Len(row), Len(REGEX_GRID(cls))) }

\* C26: when Grid.from_enriched_figure returns a Grid, every row after the
\* accepted header row whose cells all match their value patterns and whose
\* capture key set equals the fields is in the values (the second and every
\* later such row too).
C26_MatchingRowsKept ==
    (grid_pc = "done" /\ ~grid_ret.grid.is_none /\ grid_header >= 0) =>
        \A k \in (grid_header + 1)..(Len(grid_rows) - 1) :
            (/\ GridCellsMatch(grid_figure.cls, grid_rows[k + 1])
             /\ GridRowKeys(grid_figure.cls, grid_rows[k + 1])
                    = Range(grid_ret.grid.fields))
            => k \in Range(grid_kept)

\* C26: the first fully matching row after the accepted header row is in
\* the values and has set the fields.
C26_FirstMatchingRowKept ==
    /\ grid_pc = "done"
    /\ ~grid_ret.grid.is_none
    /\ grid_header = 1
    /\ grid_kept = << 2 >>
    /\ grid_ret.grid.fields # <<>>
    /\ Len(grid_ret.grid.values) = 1

(***************************************************************************)
(* pipeline.process as a state machine.  A path is the sequence of the     *)
(* dot-separated components of its file name; the output is a directory,   *)
(* as cli.main makes it.                                                   *)
(***************************************************************************)
\* Largest number of components of the stem of an input file name.
MaxStem == 2

\* Largest number of errors one convert returns.
MaxStageErrors == 2

\* pipeline.CONVERTERS
CONVERTERS == << "FromDocx", "FromFigureDocument" >>

\* FigureDocument.SUFFIX_JSON and EnrichedFigureDocument.SUFFIX_JSON, by
\* converter.
SUFFIX_JSON(converter) ==
    IF converter = "FromDocx"
    THEN << "plain", "figure", "document", "json" >>
    ELSE << "enriched", "figure", "document", "json" >>

\* str.lower on the components of the file names of the pool.
lower_suffix(component) ==
    CASE component = "DOCX" -> "docx"
      [] component = "Plain" -> "plain"
      [] component = "JSON" -> "json"
      [] OTHER -> component

\* base.strip_all_suffixes: the name without any of its suffixes.
strip_all_suffixes(path) == << Head(path) >>

\* FromDocx.is_applicable: path.suffix.lower() == ".docx";
\* FromFigureDocument.is_applicable:
\* "".join(path.suffixes).lower() == ".plain.figure.document.json".
is_applicable(converter, path) ==
    LET suffix == IF Len(path) > 1 THEN path[Len(path)] ELSE ""
        suffixes == Tail(path)
    IN  IF converter = "FromDocx"
        THEN lower_suffix(suffix) = "docx"
        ELSE [i \in DOMAIN suffixes |-> lower_suffix(suffixes[i])]
                 = << "plain", "figure", "document", "json" >>

\* document.meta.stem as the converter sets it: path.stem in FromDocx,
\* strip_all_suffixes(path.stem) in FromFigureDocument.
meta_stem(converter, path) ==
    LET stem == IF Len(path) > 1 THEN SubSeq(path, 1, Len(path) - 1)
                ELSE path
    IN  IF converter = "FromDocx" THEN stem ELSE strip_all_suffixes(stem)

\* Document.json_filename: f"{self.meta.stem}{self.SUFFIX_JSON}"
json_filename(converter, path) ==
    meta_stem(converter, path) \o SUFFIX_JSON(converter)

\* Document.html_filename: f"{self.meta.stem}{self.SUFFIX_HTML}"; SUFFIX_HTML
\* is SUFFIX_JSON with html for json.
html_filename(converter, path) ==
    meta_stem(converter, path)
        \o SubSeq(SUFFIX_JSON(converter), 1, 3) \o << "html" >>

add_errors_front(all_errors, more) == more \o all_errors

\* all_errors += errors
add_errors(all_errors, more) == all_errors \o more

\* The error list a convert returns: n errors of the converter.
convert_errors(converter, n) ==
    [k \in 1..n |-> [converter |-> converter, nr |-> k]]

\* The input file names: a stem of up to MaxStem components and an ending.
PipeInputs ==
    LET stems ==
            UNION { [1..n -> { "nvme", "v2", "docx" }] : n \in 1..MaxStem }
        endings ==
            { <<>>, << "docx" >>, << "DOCX" >>, << "json" >>, << "txt" >>,
              << "plain", "figure", "document", "json" >>,
              << "Plain", "figure", "document", "JSON" >>,
              << "enriched", "figure", "document", "json" >> }
    IN  { s \o e : s \in stems, e \in endings }

\* A call of process at its start: `all_errors = []`, before the first
\* converter; waiting: in the recursive call; broke: after `break`.
Frame(path) ==
    [input |-> path, converter |-> 1, all_errors |-> <<>>,
     waiting |-> FALSE, broke |-> FALSE]

InitPipe ==
    /\ \E path \in PipeInputs : frames = << Frame(path) >>
    /\ pipe_pc = "call"
    /\ files = <<>>
    /\ applied = <<>>
    /\ stage_errors = <<>>
    /\ pipe_ret = <<>>
    /\ ConvertIdle /\ EnrichIdle /\ TextIdle /\ NameIdle /\ TestIdle
    /\ GridIdle /\ DocxIdle

\* The frame of the innermost call.
top == frames[Len(frames)]

\* The innermost call is in its loop over CONVERTERS.
InLoop ==
    /\ pipe_pc = "call"
    /\ ~top.waiting
    /\ ~top.broke
    /\ top.converter <= Len(CONVERTERS)

\* `if not converter.is_applicable(input): continue`
PipeSkip ==
    /\ InLoop
    /\ ~is_applicable(CONVERTERS[top.converter], top.input)
    /\ frames' = [frames EXCEPT ![Len(frames)].converter = @ + 1]
    /\ UNCHANGED << pipe_pc, files, applied, stage_errors, pipe_ret >>
    /\ UNCHANGED << convertVars, enrichVars, textVars, nameVars, testVars,
                    gridVars, docxVars >>

\* The converter is applicable: convert, add its errors, write the HTML and
\* the JSON file, and call process on the JSON file.
PipeConvert ==
    /\ InLoop
    /\ is_applicable(CONVERTERS[top.converter], top.input)
    /\ \E n \in 0..MaxStageErrors :
         LET converter == CONVERTERS[top.converter]
             more == convert_errors(converter, n)
             json_path == json_filename(converter, top.input)
         IN  /\ frames' =
                   Append([frames EXCEPT
                              ![Len(frames)].all_errors = add_errors(@, more),
                              ![Len(frames)].waiting = TRUE],
                          Frame(json_path))
             /\ files' = files \o << html_filename(converter, top.input),
                                     json_path >>
             /\ applied' = Append(applied,
                                  [depth |-> Len(frames),
                                   converter |-> converter,
                                   input |-> top.input,
                                   json_path |-> json_path])
             /\ stage_errors' = Append(stage_errors, more)
    /\ UNCHANGED << pipe_pc, pipe_ret >>
    /\ UNCHANGED << convertVars, enrichVars, textVars, nameVars, testVars,
                    gridVars, docxVars >>

\* The converter is applicable and convert raises (a file that cannot be
\* read or parsed): the exception ends every call of the stack.
PipeConvertRaises ==
    /\ InLoop
    /\ is_applicable(CONVERTERS[top.converter], top.input)
    /\ pipe_pc' = "raised"
    /\ UNCHANGED << frames, files, applied, stage_errors, pipe_ret >>
    /\ UNCHANGED << convertVars, enrichVars, textVars, nameVars, testVars,
                    gridVars, docxVars >>

\* `return all_errors` of a recursive call: the caller adds the returned
\* list to its all_errors and breaks.
PipeReturnInner ==
    /\ pipe_pc = "call"
    /\ Len(frames) > 1
    /\ ~top.waiting
    /\ top.broke \/ top.converter > Len(CONVERTERS)
    /\ frames' =
          [SubSeq(frames, 1, Len(frames) - 1) EXCEPT
              ![Len(frames) - 1].all_errors = add_errors(@, top.all_errors),
              ![Len(frames) - 1].waiting = FALSE,
              ![Len(frames) - 1].broke = TRUE]
    /\ UNCHANGED << pipe_pc, files, applied, stage_errors, pipe_ret >>
    /\ UNCHANGED << convertVars, enrichVars, textVars, nameVars, testVars,
                    gridVars, docxVars >>

\* `return all_errors` of the outermost call.
PipeReturn ==
    /\ pipe_pc = "call"
    /\ Len(frames) = 1
    /\ ~top.waiting
    /\ top.broke \/ top.converter > Len(CONVERTERS)
    /\ pipe_ret' = top.all_errors
    /\ pipe_pc' = "returned"
    /\ UNCHANGED << frames, files, applied, stage_errors >>
    /\ UNCHANGED << convertVars, enrichVars, textVars, nameVars, testVars,
                    gridVars, docxVars >>

NextPipe ==
    \/ PipeSkip
    \/ PipeConvert
    \/ PipeConvertRaises
    \/ PipeReturnInner
    \/ PipeReturn

\* A call that can take a step takes it: the interpreter runs the one
\* thread of process to its end.
SpecPipe == InitPipe /\ [][NextPipe]_vars /\ WF_vars(NextPipe)

RECURSIVE Concat(_)
\* The lists of a sequence of lists, concatenated in order.
Concat(lists) ==
    IF lists = <<>> THEN <<>> ELSE Head(lists) \o Concat(Tail(lists))

\* The first converter of CONVERTERS that accepts the path (0: none).
FirstApplicable(path) ==
    IF \E c \in DOMAIN CONVERTERS : is_applicable(CONVERTERS[c], path)
    THEN CHOOSE c \in DOMAIN CONVERTERS :
             /\ is_applicable(CONVERTERS[c], path)
             /\ \A b \in 1..(c - 1) : ~is_applicable(CONVERTERS[b], path)
    ELSE 0

\* What holds of the converters applied so far and of the returned list.
PipeChain ==
    /\ \A k \in DOMAIN applied :
          /\ applied[k].depth = k
          /\ FirstApplicable(applied[k].input) # 0
          /\ applied[k].converter
                 = CONVERTERS[FirstApplicable(applied[k].input)]
          /\ k > 1 => applied[k].input = applied[k - 1].json_path
          /\ \A j \in DOMAIN applied :
                applied[j].converter = applied[k].converter => j = k
    /\ Len(frames) <= Len(applied) + 1
    /\ applied # <<>> => applied[1].input = frames[1].input
    /\ \A k \in DOMAIN applied :
          applied[k].converter = "FromFigureDocument"
              => FirstApplicable(applied[k].json_path) = 0
    /\ pipe_pc = "returned" =>
          /\ pipe_ret = Concat(stage_errors)
          /\ Len(stage_errors) = Len(applied)
          /\ FirstApplicable(frames[1].input) = 0
                 => (pipe_ret = <<>> /\ files = <<>> /\ applied = <<>>)

\* C29: pipeline.process terminates for every input path; each invocation
\* applies at most one converter, the first applicable of CONVERTERS; the
\* recursion continues on the JSON file just written; no converter is
\* applied twice along a chain; the returned list is the errors of the
\* stages concatenated in stage order; an input no converter accepts gives
\* an empty list and writes nothing.
C29_ProcessTerminates ==
    /\ []PipeChain
    /\ <>(pipe_pc \in { "returned", "raised" })

\* C29: a chain docx -> plain figure document -> enriched document has
\* returned, with errors of both stages.
C29_TwoStagesReturned ==
    /\ pipe_pc = "returned"
    /\ Len(applied) = 2
    /\ applied[1].converter = "FromDocx"
    /\ applied[2].converter = "FromFigureDocument"
    /\ stage_errors[1] # <<>>
    /\ stage_errors[2] # <<>>
    /\ Len(files) = 4

(***************************************************************************)
(* FromDocx.convert (plain.py) as a state machine: one step per table and  *)
(* one per paragraph of the docx document.                                 *)
(***************************************************************************)
\* Largest number of tables of a docx document.
MaxTables == 2

\* Largest number of paragraphs of a docx document.
MaxParagraphs == 3

\* re.match(regex, text).groupdict() of Figure.REGEX_TABLE_OF_FIGURES and
\* Figure.REGEX_TABLE_ROW on the stripped texts of the pools (no entry: no
\* match), caption and description stripped as from_regex strips them.
RegexMatches ==
    {  << "REGEX_TABLE_OF_FIGURES", "Figure 1: Identify 12",
          [caption |-> "Figure 1: Identify", figure_nr |-> "1", description |-> "Identify", page_nr |-> "12"] >>,
       << "REGEX_TABLE_OF_FIGURES", "Figure 1: Identify",
          [caption |-> "Figure 1: Identify", figure_nr |-> "1", description |-> "Identify", page_nr |-> None] >>,
       << "REGEX_TABLE_OF_FIGURES", "Figure 1: Status 12",
          [caption |-> "Figure 1: Status", figure_nr |-> "1", description |-> "Status", page_nr |-> "12"] >>,
       << "REGEX_TABLE_OF_FIGURES", "Figure 2: Flush 0",
          [caption |-> "Figure 2: Flush", figure_nr |-> "2", description |-> "Flush", page_nr |-> "0"] >>,
       << "REGEX_TABLE_OF_FIGURES", "Figure 2: Flush 7",
          [caption |-> "Figure 2: Flush", figure_nr |-> "2", description |-> "Flush", page_nr |-> "7"] >>,
       << "REGEX_TABLE_OF_FIGURES", "Figure 2: Flush",
          [caption |-> "Figure 2: Flush", figure_nr |-> "2", description |-> "Flush", page_nr |-> None] >>,
       << "REGEX_TABLE_ROW", "Figure 1: Identify 12",
          [caption |-> "Figure 1: Identify 12", figure_nr |-> "1", description |-> "Identify 12"] >>,
       << "REGEX_TABLE_ROW", "Figure 1: Identify",
          [caption |-> "Figure 1: Identify", figure_nr |-> "1", description |-> "Identify"] >>,
       << "REGEX_TABLE_ROW", "Figure 1: Status 12",
          [caption |-> "Figure 1: Status 12", figure_nr |-> "1", description |-> "Status 12"] >>,
       << "REGEX_TABLE_ROW", "Figure 2: Flush 0",
          [caption |-> "Figure 2: Flush 0", figure_nr |-> "2", description |-> "Flush 0"] >>,
       << "REGEX_TABLE_ROW", "Figure 2: Flush 7",
          [caption |-> "Figure 2: Flush 7", figure_nr |-> "2", description |-> "Flush 7"] >>,
       << "REGEX_TABLE_ROW", "Figure 2: Flush",
          [caption |-> "Figure 2: Flush", figure_nr |-> "2", description |-> "Flush"] >> }

\* The pairs (a, b) of descriptions with `a in b`.
DescriptionIn ==
    { << "Flush", "Flush" >>,
      << "Flush", "Flush 0" >>,
      << "Flush", "Flush 7" >>,
      << "Flush 0", "Flush 0" >>,
      << "Flush 7", "Flush 7" >>,
      << "Identify", "Identify" >>,
      << "Identify", "Identify 12" >>,
      << "Identify 12", "Identify 12" >>,
      << "Status", "Status" >>,
      << "Status", "Status 12" >>,
      << "Status 12", "Status 12" >> }

\* Figure.from_regex: None without a match, a Figure otherwise; int(None),
\* the conversion of a page_nr group that did not participate, raises
\* TypeError.
from_regex(regex, txt) ==
    IF ~\E t \in RegexMatches : t[1] = regex /\ t[2] = txt
    THEN [kind |-> "None"]
    ELSE LET match == (CHOOSE t \in RegexMatches :
                           t[1] = regex /\ t[2] = txt)[3]
             int(s) == CASE s = "0" -> 0 [] s = "1" -> 1 [] s = "2" -> 2
                         [] s = "7" -> 7 [] s = "12" -> 12
         IN  IF "page_nr" \in DOMAIN match
             THEN IF match.page_nr = None
                  THEN [kind |-> "TypeError"]
                  ELSE [kind |-> "Figure",
                        figure_nr |-> int(match.figure_nr),
                        caption |-> match.caption,
                        description |-> match.description,
                        page_nr |-> int(match.page_nr),
                        table |-> FALSE]
             ELSE [kind |-> "Figure",
                   figure_nr |-> int(match.figure_nr),
                   caption |-> match.caption,
                   description |-> match.description,
                   page_nr |-> 0,
                   table |-> FALSE]

\* A docx document: the captions of up to MaxTables tables and up to
\* MaxParagraphs paragraphs; page_nr 0 of a Figure stands for None (both
\* are false in `not figure.page_nr`).
InitDocx ==
    /\ docx_tables \in
          UNION { [1..n -> { "Figure 1: Identify", "Figure 2: Flush",
                             "Contents" }] : n \in 0..MaxTables }
    /\ paragraphs \in
          UNION { [1..n ->
                     { [style |-> "table of figures", text |-> t] :
                         t \in { "Figure 1: Identify 12",
                                 "Figure 1: Identify",
                                 "Figure 1: Status 12",
                                 "Figure 2: Flush 0",
                                 "Figure 2: Flush 7",
                                 "Table 3: Log" } }
                     \cup { [style |-> "Normal", text |-> "Contents"] }] :
                  n \in 0..MaxParagraphs }
    /\ docx_pc = IF docx_tables = <<>> THEN "paragraphs" ELSE "tables"
    /\ table_idx = 0
    /\ par_idx = 0
    /\ prev = None
    /\ docx_figures = <<>>
    /\ docx_errors = <<>>
    /\ ConvertIdle /\ EnrichIdle /\ TextIdle /\ NameIdle /\ TestIdle
    /\ GridIdle /\ PipeIdle

\* An iteration of the loop over docx_document.tables.
DocxTable ==
    /\ docx_pc = "tables"
    /\ table_idx < Len(docx_tables)
    /\ LET caption == docx_tables[table_idx + 1]
           fig == from_regex("REGEX_TABLE_ROW", caption)
       IN  IF fig.kind = "None"
           THEN /\ docx_errors' =
                      Append(docx_errors,
                             [kind |-> "TableCaptionError",
                              message |->
                                  "Does not match figure caption assumptions",
                              caption |-> caption])
                /\ docx_figures' = docx_figures
           ELSE IF fig.figure_nr \in Range(Keys(docx_figures))
           THEN /\ docx_errors' =
                      Append(docx_errors,
                             [kind |-> "TableCaptionError",
                              message |-> "Duplicate caption",
                              caption |-> caption])
                /\ docx_figures' = docx_figures
           ELSE /\ docx_figures' =
                      DictSet(docx_figures,
                              [k |-> fig.figure_nr,
                               v |-> [fig EXCEPT !.table = TRUE]])
                /\ docx_errors' = docx_errors
    /\ table_idx' = table_idx + 1
    /\ docx_pc' = IF table_idx' = Len(docx_tables) THEN "paragraphs"
                  ELSE "tables"
    /\ UNCHANGED << docx_tables, paragraphs, par_idx, prev >>
    /\ UNCHANGED << convertVars, enrichVars, textVars, nameVars, testVars,
                    gridVars, pipeVars >>

\* The loop over docx_document.paragraphs breaks at the first paragraph
\* after the table of figures.
DocxBreak ==
    /\ par_idx < Len(paragraphs)
    /\ prev = "table of figures"
    /\ paragraphs[par_idx + 1].style # "table of figures"

\* An iteration of the loop over docx_document.paragraphs that does not
\* break; a TypeError of from_regex ends convert.
DocxParagraph ==
    /\ docx_pc = "paragraphs"
    /\ par_idx < Len(paragraphs)
    /\ ~DocxBreak
    /\ LET paragraph == paragraphs[par_idx + 1]
           caption == paragraph.text
           fig == from_regex("REGEX_TABLE_OF_FIGURES", caption)
           existing == { i \in DOMAIN docx_figures :
                           docx_figures[i].k = fig.figure_nr }
           TableOfFiguresError(message) ==
               [kind |-> "TableOfFiguresError", message |-> message,
                caption |-> caption]
       IN  /\ prev' = paragraph.style
           /\ IF paragraph.style # "table of figures"
              THEN /\ UNCHANGED << docx_pc, docx_figures, docx_errors >>
                   /\ par_idx' = par_idx + 1
              ELSE IF fig.kind = "TypeError"
              THEN /\ docx_pc' = "raised"
                   /\ UNCHANGED << docx_figures, docx_errors, par_idx >>
              ELSE IF fig.kind = "None"
              THEN /\ docx_errors' =
                         Append(docx_errors,
                                TableOfFiguresError(
                                    "Does not match figure assumptions"))
                   /\ par_idx' = par_idx + 1
                   /\ UNCHANGED << docx_pc, docx_figures >>
              ELSE IF fig.page_nr = 0
              THEN /\ docx_errors' =
                         Append(docx_errors,
                                TableOfFiguresError("Is missing <page_nr>"))
                   /\ par_idx' = par_idx + 1
                   /\ UNCHANGED << docx_pc, docx_figures >>
              ELSE IF existing # {}
              THEN /\ docx_figures' =
                         [i \in DOMAIN docx_figures |->
                            IF i \in existing
                            THEN [docx_figures[i] EXCEPT
                                     !.v.page_nr = fig.page_nr]
                            ELSE docx_figures[i]]
                   /\ docx_errors' =
                         IF << fig.description,
                               docx_figures[CHOOSE i \in existing : TRUE]
                                   .v.description >> \notin DescriptionIn
                         THEN Append(docx_errors,
                                     TableOfFiguresError("!="))
                         ELSE docx_errors
                   /\ par_idx' = par_idx + 1
                   /\ UNCHANGED docx_pc
              ELSE /\ docx_figures' =
                         DictSet(docx_figures,
                                 [k |-> fig.figure_nr, v |-> fig])
                   /\ par_idx' = par_idx + 1
                   /\ UNCHANGED << docx_pc, docx_errors >>
    /\ UNCHANGED << docx_tables, paragraphs, table_idx >>
    /\ UNCHANGED << convertVars, enrichVars, textVars, nameVars, testVars,
                    gridVars, pipeVars >>

\* After the last paragraph or the break: return the FigureDocument and the
\* errors.
DocxReturn ==
    /\ docx_pc = "paragraphs"
    /\ par_idx = Len(paragraphs) \/ DocxBreak
    /\ docx_pc' = "returned"
    /\ UNCHANGED << docx_tables, paragraphs, table_idx, par_idx, prev,
                    docx_figures, docx_errors >>
    /\ UNCHANGED << convertVars, enrichVars, textVars, nameVars, testVars,
                    gridVars, pipeVars >>

NextDocx ==
    \/ DocxTable
    \/ DocxParagraph
    \/ DocxReturn

SpecDocx == InitDocx /\ [][NextDocx]_vars

\* The text matches the table-of-figures pattern and has no trailing page
\* number.
CaptionWithoutPage(txt) ==
    \E t \in RegexMatches :
        /\ t[1] = "REGEX_TABLE_OF_FIGURES"
        /\ t[2] = txt
        /\ t[3].page_nr = None

\* The paragraphs of the table of figures that convert goes through: those
\* up to the first paragraph after the table of figures.
TableOfFiguresEntries ==
    { k \in DOMAIN paragraphs :
        /\ paragraphs[k].style = "table of figures"
        /\ \A j \in 2..k :
              ~(/\ paragraphs[j - 1].style = "table of figures"
                /\ paragraphs[j].style # "table of figures") }

\* C30: FromDocx.convert never raises, and when it has returned, every
\* table-of-figures entry that matches the caption pattern without a
\* trailing page number is reported as TableOfFiguresError "Is missing
\* <page_nr>" and the entries after it are gone through.
C30_MissingPageNumberIsErrorValue ==
    /\ docx_pc # "raised"
    /\ docx_pc = "returned" =>
          \A k \in TableOfFiguresEntries :
              CaptionWithoutPage(paragraphs[k].text) =>
                  /\ k <= par_idx
                  /\ \E e \in Range(docx_errors) :
                        /\ e.kind = "TableOfFiguresError"
                        /\ e.message = "Is missing <page_nr>"
                        /\ e.caption = paragraphs[k].text

\* C30: an entry with the page number 0 is reported as "Is missing
\* <page_nr>" and skipped, and the next entry is ingested.
C30_PageZeroReportedAndSkipped ==
    /\ docx_pc = "returned"
    /\ Len(paragraphs) >= 2
    /\ paragraphs[1] = [style |-> "table of figures",
                        text |-> "Figure 2: Flush 0"]
    /\ paragraphs[2] = [style |-> "table of figures",
                        text |-> "Figure 1: Identify 12"]
    /\ \E e \in Range(docx_errors) :
          e.message = "Is missing <page_nr>" /\ e.caption = "Figure 2: Flush 0"
    /\ 2 \notin Range(Keys(docx_figures))
    /\ \E i \in DOMAIN docx_figures :
          docx_figures[i].k = 1 /\ docx_figures[i].v.page_nr = 12

=============================================================================
